---------------------------- MODULE Spec2Model ----------------------------
(***************************************************************************)
(* Mask & Link (trellisfw-masklink, src/index.js).                         *)
(*                                                                         *)
(* Specifications of this module:                                          *)
(*   SpecSingle   mask / verify on one object (pure functions)             *)
(*   SpecChain    maskResource + signResource chains on a remote store and *)
(*                the recursive peel of verifyRemoteResource               *)
(*   SpecMasker   maskRemoteResourceAsNewResource, concurrent callers      *)
(*   SpecResource maskResource and the calls that take its result          *)
(*   SpecHelpers  isMask, domainForMask, findAllMaskPathsInResource,       *)
(*                signResource, connectionOrToken on enumerated inputs     *)
(*   SpecDetails  verifyRemote calls in flight at once                     *)
(***************************************************************************)
EXTENDS Integers, Sequences, FiniteSets, TLC

VARIABLES
  \* ---- SpecSingle -------------------------------------------------------
  sIn,        \* arguments of mask(): [original, url, nonce, nonceurl, fresh]
  sMask,      \* what mask() returned (or that it has not run / threw)
  sArgs,      \* arguments of the last verify(): [mask, original, nonce, how]
  sOut,       \* what the last verify() returned
  \* ---- SpecChain --------------------------------------------------------
  store,      \* the remote: resource id -> document [body, sigs]
  nonces,     \* the remote: resource id -> value at <id>/_meta/nonce
  rounds,     \* log of the producer rounds that built the chain
  edited,     \* the remote edit made after masking, if any
  vpc,        \* position of verifyRemoteResource
  vdoc,       \* the resource the next peel round takes
  frames,     \* stack of the peel: one [sig, rc] per round entered
  result,     \* peel result, then the value verifyRemoteResource returns
  vlog,       \* what the call did: tsig.verify calls, GETs, per-mask verdicts
  \* ---- SpecMasker -------------------------------------------------------
  mNonce,     \* the value stored at url + "/_meta/nonce" (Undef: none)
  mPosted,    \* resources POSTed to /resources, in order
  mPuts,      \* log of the PUTs of a nonce: [by, old, new]
  mProc,      \* per caller: position and locals of maskRemoteResourceAsNewResource
  \* ---- SpecResource -----------------------------------------------------
  rIn,        \* arguments of maskResource(): [resource, url, paths, nonce, ...]
  rMasked,    \* what maskResource() returned (or that it has not run / threw)
  rOp,        \* the last call made on the masked resource: [op, arg]
  rOut,       \* what that call returned
  \* ---- SpecHelpers ------------------------------------------------------
  hIn,        \* the helper called and its arguments: [fn, ...]
  hOut,       \* what it returned (or that it has not run)
  \* ---- SpecDetails ------------------------------------------------------
  details,    \* the variable `details` that verifyRemote assigns (line 189)
  vProc,      \* per call: position and locals of verifyRemote
  rcAcc       \* the reduce of reconstructOriginalFromMaskPaths: accumulator

singleVars == <<sIn, sMask, sArgs, sOut>>
chainVars  == <<store, nonces, rounds, edited, vpc, vdoc, frames, result, vlog>>
maskerVars == <<mNonce, mPosted, mPuts, mProc>>
resourceVars == <<rIn, rMasked, rOp, rOut>>
helperVars == <<hIn, hOut>>
detailVars == <<details, vProc, rcAcc>>
vars       == <<sIn, sMask, sArgs, sOut,
                store, nonces, rounds, edited, vpc, vdoc, frames, result, vlog,
                mNonce, mPosted, mPuts, mProc,
                rIn, rMasked, rOp, rOut,
                hIn, hOut, details, vProc, rcAcc>>

-----------------------------------------------------------------------------
(***************************************************************************)
(* JSON values.  A value is a record tagged by t; object members live in   *)
(* kv, a function from keys to values.  Strings that stand for a URL or a  *)
(* digest carry the thing they encode (u, h) instead of characters, which  *)
(* makes the URL codec and the hash injective.  Undef is JavaScript's      *)
(* undefined (an argument not passed, a key not present).                  *)
(***************************************************************************)
Undef    == [t |-> "undef"]
Null     == [t |-> "null"]
Bool(b)  == [t |-> "bool", b |-> b]
Num(n)   == [t |-> "num", n |-> n]
Str(s)   == [t |-> "str", s |-> s]
Obj(f)   == [t |-> "obj", kv |-> f]
EmptyObj == Obj(<<>>)

IsObj(j) == j.t = "obj"
IsStr(j) == j.t = "str"

\* JavaScript truthiness, the test behind every `!x` and `x || y` of the source
Truthy(j) ==
  CASE j.t = "undef" -> FALSE
    [] j.t = "null"  -> FALSE
    [] j.t = "bool"  -> j.b
    [] j.t = "num"   -> j.n # 0
    [] j.t = "str"   -> IF "s" \in DOMAIN j THEN j.s # "" ELSE TRUE
    [] OTHER         -> TRUE

\* obj[key] as JavaScript evaluates it on a value that is not null/undefined
Member(j, k) == IF IsObj(j) /\ k \in DOMAIN j.kv THEN j.kv[k] ELSE Undef

\* a URL string: the resource id followed by the reference tokens below it
Url(id, ptr) == [t |-> "str", u |-> <<id>> \o ptr]
IsUrl(j)     == IsStr(j) /\ "u" \in DOMAIN j

pathFromURL(url) == url.u

NoncePtr == <<"_meta", "nonce">>

\* tsig.hashJSON: deterministic, canonical, treated as injective
hashJSON(v) ==
  Obj("alg" :> Str("SHA256") @@ "hash" :> [t |-> "str", h |-> v])

-----------------------------------------------------------------------------
(***************************************************************************)
(* mask, verify (src/index.js 98-165)                                      *)
(***************************************************************************)
Threw == [threw |-> TRUE]

\* a commitment without the two-key wrapper
commitNoNonce(original, nonce) == hashJSON(original)

\* the commitment both mask and verify compute: hashJSON({original, nonce})
commit(original, nonce) ==
  hashJSON(Obj("original" :> original @@ "nonce" :> nonce))

\* a mask that falls back to <url>/_meta/nonce when no nonceurl is passed
maskDefaultsNonceurl(original, url, nonce, nonceurl, fresh) ==
  LET n  == IF ~Truthy(nonce) THEN fresh ELSE nonce
      nu == IF ~Truthy(nonceurl) THEN Url(1, NoncePtr) ELSE nonceurl
      tm == Obj("version" :> Str("1.0") @@ "hashinfo" :> commit(original, n)
                @@ "url" :> url @@ "nonceurl" :> nu)
  IN  [threw |-> FALSE, nonce |-> n, nonceurl |-> nu,
       mask |-> Obj("trellis-mask" :> tm), original |-> original]

\* fresh stands for the value makeNonce() returns if it is called; the
\* original field is the caller's object as the call leaves it: the body only
\* reads it, to hash it
mask(original, url, nonce, nonceurl, fresh) ==
  LET n  == IF ~Truthy(nonce) THEN fresh ELSE nonce
      tm == Obj("version" :> Str("1.0") @@ "hashinfo" :> commit(original, n)
                @@ "url" :> url @@ "nonceurl" :> nonceurl)
  IN  IF ~Truthy(nonceurl) THEN Threw
      ELSE [threw |-> FALSE, nonce |-> n, nonceurl |-> nonceurl,
            mask |-> Obj("trellis-mask" :> tm), original |-> original]

Invalid == [valid |-> FALSE, match |-> FALSE]

\* a verify that accepts whatever original and nonce it is handed
verifyAlwaysMatch(m0, original, nonce) == [valid |-> TRUE, match |-> TRUE]

verify(m0, original, nonce) ==
  LET m == IF Truthy(m0) /\ Truthy(Member(m0, "trellis-mask"))
           THEN Member(m0, "trellis-mask") ELSE m0
  IN  IF ~Truthy(m) THEN Invalid
      ELSE IF Member(m, "version") # Str("1.0") THEN Invalid
      ELSE IF ~Truthy(Member(m, "hashinfo")) THEN Invalid
      ELSE IF ~Truthy(original) THEN Invalid
      ELSE IF ~Truthy(nonce) THEN Invalid
      ELSE [valid |-> TRUE,
            match |-> (Member(m, "hashinfo") = commit(original, nonce))]


-----------------------------------------------------------------------------
(***************************************************************************)
(* JSON Pointer access (the json-pointer package as index.js uses it).     *)
(* A pointer is its sequence of reference tokens.  ThrewV marks a call     *)
(* that threw.                                                             *)
(***************************************************************************)
ThrewV     == [t |-> "threw"]
IsThrew(j) == j.t = "threw"
Arr(items) == [t |-> "arr", items |-> items]

Put(f, k, v) == (k :> v) @@ f

\* jsonpointer.get: throws on a token that is not in the object
RECURSIVE jpGet(_, _)
jpGet(j, ptr) ==
  IF ptr = <<>> THEN j
  ELSE IF IsObj(j) /\ Head(ptr) \in DOMAIN j.kv
       THEN jpGet(j.kv[Head(ptr)], Tail(ptr))
       ELSE ThrewV

\* jsonpointer.set: creates missing intermediate objects, throws on the root
\* pointer and on a step through a value that is not an object
RECURSIVE jpSetIn(_, _, _)
jpSetIn(j, ptr, v) ==
  IF ~IsObj(j) THEN ThrewV
  ELSE LET tok == Head(ptr)
       IN  IF Len(ptr) = 1 THEN Obj(Put(j.kv, tok, v))
           ELSE LET child == IF tok \in DOMAIN j.kv THEN j.kv[tok] ELSE EmptyObj
                    sub   == jpSetIn(child, Tail(ptr), v)
                IN  IF IsThrew(sub) THEN ThrewV ELSE Obj(Put(j.kv, tok, sub))

jpSet(j, ptr, v) == IF ptr = <<>> THEN ThrewV ELSE jpSetIn(j, ptr, v)

\* urlToResource + p
UrlCat(url, p) == [t |-> "str", u |-> url.u \o p]

-----------------------------------------------------------------------------
(***************************************************************************)
(* Documents and the external signer (tsig).  A document is the resource   *)
(* body plus its signatures array; sigs = <<>> is a resource without a     *)
(* signatures key.  A signature records what was signed (over), standing   *)
(* for the hash inside the JWT, and whether the JWT still verifies.        *)
(***************************************************************************)
Doc(body, sigs) == [t |-> "doc", body |-> body, sigs |-> sigs]

\* tsig.sign(resource, key, {signer, type, payload}): appends one signature
tsigSign(doc, type, paths, trusted) ==
  Doc(doc.body,
      Append(doc.sigs, [type |-> type, paths |-> paths, over |-> doc,
                        valid |-> TRUE, trusted |-> trusted]))

\* tsig.verify(resource): consumes the top-most signature
tsigVerify(doc) ==
  LET n    == Len(doc.sigs)
      s    == doc.sigs[n]
      orig == Doc(doc.body, SubSeq(doc.sigs, 1, n - 1))
  IN  [valid     |-> s.valid,
       trusted   |-> s.valid /\ s.trusted,
       unchanged |-> s.valid /\ s.over = orig,
       original  |-> orig,
       payload   |-> [t |-> "payload", type |-> s.type, paths |-> s.paths]]

\* signResource (src/index.js 232-255): a signature of type mask whose
\* payload holds mask-paths when paths is given
signResource(resource, paths, trusted) ==
  tsigSign(resource, "mask", IF Truthy(paths) THEN paths ELSE Undef, trusted)

(***************************************************************************)
(* maskResource (src/index.js 262-281)                                     *)
(***************************************************************************)
\* a maskResource that writes each mask into the resource it was handed too
maskWriteInPlace(st, p, m) ==
  [t |-> "copy", input |-> jpSet(st.input, p, m), r |-> jpSet(st.r, p, m)]

\* a maskResource whose copy keeps nothing but the mask
maskWriteAlone(st, p, m) ==
  [t |-> "copy", input |-> st.input, r |-> jpSet(EmptyObj, p, m)]

\* line 279: the mask is written into the copy r, never into the input
maskWrite(st, p, m) ==
  [t |-> "copy", input |-> st.input, r |-> jpSet(st.r, p, m)]

\* the input as maskResource leaves it when a step of the loop throws
maskThrew(input) == [t |-> "threw", input |-> input]

\* the _.each over paths: read from the input, write the mask into the copy.
\* st holds both objects: the input and the copy r of line 263.  objToMask
\* is a reference into the input, so what mask leaves of its original is
\* what the input holds at p
RECURSIVE maskEach(_, _, _, _, _)
maskEach(st, urlToResource, paths, nonce, nonceurl) ==
  IF paths = <<>> THEN st
  ELSE LET p         == Head(paths)
           objToMask == jpGet(st.input, p)
           res       == mask(objToMask, UrlCat(urlToResource, p), nonce, nonceurl, nonce)
           st1       == [st EXCEPT !.input = IF p = <<>> THEN res.original
                                             ELSE jpSet(st.input, p, res.original)]
           st2       == maskWrite(st1, p, res.mask)
       IN  IF IsThrew(objToMask) \/ res.threw THEN maskThrew(st.input)
           ELSE IF IsThrew(st2.input) THEN maskThrew(st1.input)
           ELSE IF IsThrew(st2.r) THEN maskThrew(st2.input)
           ELSE maskEach(st2, urlToResource, Tail(paths), nonce, nonceurl)

\* a maskResource that throws when it has no urlToResource
sentinelThrows(resource) == [threw |-> TRUE, input |-> resource]

\* lines 264-267: what maskResource returns when it has no urlToResource
sentinel(resource) ==
  [threw |-> FALSE, nonce |-> Bool(FALSE), resource |-> Bool(FALSE),
   nonceurl |-> Bool(FALSE), input |-> resource]

\* input is the caller's resource as the call leaves it
maskResource(resource, urlToResource, paths, nonce0, nonceurl0, fresh) ==
  IF ~Truthy(urlToResource) THEN sentinel(resource)
  ELSE LET nonce    == IF Truthy(nonce0) THEN nonce0 ELSE fresh
           nonceurl == IF Truthy(nonceurl0) THEN nonceurl0
                       ELSE UrlCat(urlToResource, NoncePtr)
           st       == maskEach([t |-> "copy", input |-> resource.body,
                                 r |-> resource.body],
                                urlToResource,
                                IF Truthy(paths) THEN paths.items ELSE <<>>,
                                nonce, nonceurl)
       IN  IF IsThrew(st)
           THEN [threw |-> TRUE, input |-> Doc(st.input, resource.sigs)]
           ELSE [threw |-> FALSE, nonce |-> nonce,
                 resource |-> Doc(st.r, resource.sigs), nonceurl |-> nonceurl,
                 input |-> Doc(st.input, resource.sigs)]

(***************************************************************************)
(* isMask (src/index.js 31-40)                                             *)
(***************************************************************************)
isMask(t0) ==
  IF ~Truthy(t0) THEN FALSE
  ELSE IF ~IsObj(t0) THEN FALSE
  ELSE LET t  == IF Truthy(Member(t0, "trellis-mask"))
                 THEN Member(t0, "trellis-mask") ELSE t0
           hi == Member(t, "hashinfo")
       IN  IF ~Truthy(hi) THEN FALSE
           ELSE /\ IsStr(Member(t, "url"))
                /\ IsStr(Member(t, "nonceurl"))
                /\ IsStr(Member(hi, "alg"))
                /\ IsStr(Member(hi, "hash"))

(***************************************************************************)
(* findAllMaskPathsInResource (src/index.js 62-77).  Keys are visited in   *)
(* the order of KeyOrder.                                                  *)
(***************************************************************************)
KeyOrder == <<"_id", "key1", "key2", "notmasked", "location", "here",
              "keywith/slash", "a~b", "trellis-mask",
              "version", "hashinfo", "url", "nonceurl", "alg", "hash">>

RECURSIVE recursiveFindMaskPaths(_, _)
RECURSIVE findUnderKeys(_, _, _)
findUnderKeys(curobj, curpath, keys) ==
  IF keys = <<>> THEN <<>>
  ELSE recursiveFindMaskPaths(curobj.kv[Head(keys)], Append(curpath, Head(keys)))
       \o findUnderKeys(curobj, curpath, Tail(keys))

recursiveFindMaskPaths(curobj, curpath) ==
  IF ~Truthy(curobj) THEN <<>>
  ELSE IF ~IsObj(curobj) THEN <<>>
  ELSE IF Truthy(Member(curobj, "trellis-mask")) THEN <<curpath>>
  ELSE findUnderKeys(curobj, curpath,
                     SelectSeq(KeyOrder, LAMBDA k : k \in DOMAIN curobj.kv))

\* the resource is a document, or undefined
findAllMaskPathsInResource(resource) ==
  IF ~Truthy(resource) THEN <<>>
  ELSE recursiveFindMaskPaths(resource.body, <<>>)

(***************************************************************************)
(* The remote, verifyRemote (178-211) and                                  *)
(* reconstructOriginalFromMaskPaths (352-369)                              *)
(***************************************************************************)
\* connection.get({path}).then(r => r.data).catch(e => null) on path tokens u
Get(u) ==
  LET id   == Head(u)
      rest == Tail(u)
  IN  IF id \notin DOMAIN store THEN Null
      ELSE IF rest = NoncePtr
           THEN (IF nonces[id] = Undef THEN Null ELSE nonces[id])
           ELSE LET v == jpGet(store[id].body, rest)
                IN  IF IsThrew(v) THEN Null ELSE v

VrThrew == [threw |-> TRUE, valid |-> FALSE, match |-> FALSE,
            original |-> Undef, nonce |-> Undef, gets |-> <<>>]

verifyRemote(mask0) ==
  LET m        == IF Truthy(mask0) /\ Truthy(Member(mask0, "trellis-mask"))
                  THEN Member(mask0, "trellis-mask") ELSE mask0
      url      == Member(m, "url")
      nonceurl == Member(m, "nonceurl")
  IN  IF m.t \in {"null", "undef"} THEN VrThrew
      ELSE IF ~Truthy(url)
      THEN [threw |-> FALSE, valid |-> FALSE, match |-> FALSE,
            original |-> Bool(FALSE), nonce |-> Bool(FALSE), gets |-> <<>>]
      ELSE IF ~IsStr(url) \/ ~IsStr(nonceurl) THEN VrThrew
      ELSE LET original == IF IsUrl(url) THEN Get(pathFromURL(url)) ELSE Null
               nonce    == IF IsUrl(nonceurl) THEN Get(pathFromURL(nonceurl)) ELSE Null
               gets     == <<url, nonceurl>>
           IN  IF ~Truthy(original) \/ ~Truthy(nonce)
               THEN [threw |-> FALSE, valid |-> FALSE, match |-> FALSE,
                     original |-> Bool(FALSE), nonce |-> Bool(FALSE), gets |-> gets]
               ELSE LET r == verify(m, original, nonce)
                    IN  [threw |-> FALSE, valid |-> r.valid, match |-> r.match,
                         original |-> original, nonce |-> nonce, gets |-> gets]

RcThrew(gets) == [threw |-> TRUE, valid |-> FALSE, match |-> FALSE,
                  resource |-> Undef, gets |-> gets, mism |-> FALSE]

\* the .reduce: write each fetched original back, AND the verdicts.  The
\* accumulator starts from maskedResource itself (line 367), so its body is
\* also the caller's object as the call leaves it
RECURSIVE reduceBack(_, _, _, _)
reduceBack(acc, ps, per, i) ==
  IF i > Len(ps) THEN acc
  ELSE LET body == jpSet(acc.body, ps[i], per[i].original)
       IN  IF IsThrew(body) THEN [acc EXCEPT !.threw = TRUE]
           ELSE reduceBack([threw |-> FALSE,
                            valid |-> acc.valid /\ per[i].valid,
                            match |-> acc.match /\ per[i].match,
                            body  |-> body], ps, per, i + 1)

RECURSIVE catGets(_, _)
catGets(per, i) ==
  IF i > Len(per) THEN <<>> ELSE per[i].gets \o catGets(per, i + 1)

\* the Promise.map: one verifyRemote per path, each reading its mask from the
\* resource as it was handed in
RECURSIVE mapVerifyRemote(_, _)
mapVerifyRemote(maskedResource, ps) ==
  IF ps = <<>> THEN <<>>
  ELSE LET mk == jpGet(maskedResource.body, Head(ps))
       IN  <<IF IsThrew(mk) THEN VrThrew ELSE verifyRemote(mk)>>
           \o mapVerifyRemote(maskedResource, Tail(ps))

reconstructOriginalFromMaskPaths(maskedResource, paths) ==
  IF paths.t # "arr" THEN RcThrew(<<>>)
  ELSE LET ps  == paths.items
           per == mapVerifyRemote(maskedResource, ps)
           gets == catGets(per, 1)
           red == reduceBack([threw |-> FALSE, valid |-> TRUE, match |-> TRUE,
                              body |-> maskedResource.body], ps, per, 1)
       IN  IF \E i \in 1..Len(ps) : per[i].threw THEN RcThrew(gets)
           ELSE IF red.threw THEN RcThrew(gets)
           ELSE [threw |-> FALSE, valid |-> red.valid, match |-> red.match,
                 resource |-> Doc(red.body, maskedResource.sigs),
                 input |-> Doc(red.body, maskedResource.sigs),
                 gets |-> gets,
                 mism |-> \E i \in 1..Len(ps) : ~per[i].match]

-----------------------------------------------------------------------------
(***************************************************************************)
(* SpecSingle: mask() once, then verify() on its result, with the          *)
(* arguments a caller can pass.                                            *)
(***************************************************************************)
Originals ==
  {Null, Bool(FALSE), Bool(TRUE), Num(0), Num(1), Str(""), Str("abc"),
   EmptyObj, Obj("here" :> Str("here"))}

NonceStrings == {Str(""), Str("abcdefg"), Str("12345")}
FreshNonces  == {Str("r1"), Str("r2")}

\* {alg, hash} pairs that no commitment of the model equals
ForgedHashinfos ==
  {Obj("alg" :> Str("SHA256") @@ "hash" :> Str("nottherealhash")),
   Obj("alg" :> Str("MD5") @@ "hash" :> Str("abc"))}

NotRun == [t |-> "notrun"]

ChainIdle ==
  /\ store = <<>> /\ nonces = <<>> /\ rounds = <<>> /\ edited = Undef
  /\ vpc = "off" /\ vdoc = Undef /\ frames = <<>> /\ result = Undef
  /\ vlog = <<>>

SingleIdle ==
  /\ sIn = NotRun /\ sMask = NotRun /\ sArgs = NotRun /\ sOut = NotRun

MaskerIdle ==
  /\ mNonce = Undef /\ mPosted = <<>> /\ mPuts = <<>> /\ mProc = <<>>

ResourceIdle ==
  /\ rIn = NotRun /\ rMasked = NotRun /\ rOp = NotRun /\ rOut = NotRun

HelpersIdle == hIn = NotRun /\ hOut = NotRun

DetailsIdle == details = Undef /\ vProc = <<>> /\ rcAcc = Undef

OthersIdle == HelpersIdle /\ DetailsIdle

InitSingle ==
  /\ sIn \in [original : Originals,
              url      : {Undef, Url(1, <<"location">>)},
              nonce    : {Undef} \cup NonceStrings,
              nonceurl : {Undef, Url(1, NoncePtr)},
              fresh    : FreshNonces]
  /\ sMask = NotRun
  /\ sArgs = NotRun
  /\ sOut  = NotRun
  /\ ChainIdle
  /\ MaskerIdle
  /\ ResourceIdle
  /\ OthersIdle

CallMask ==
  /\ sMask = NotRun
  /\ sMask' = mask(sIn.original, sIn.url, sIn.nonce, sIn.nonceurl, sIn.fresh)
  /\ UNCHANGED <<sIn, sArgs, sOut>>
  /\ UNCHANGED chainVars /\ UNCHANGED maskerVars /\ UNCHANGED resourceVars
  /\ UNCHANGED helperVars /\ UNCHANGED detailVars

\* replace the hashinfo of a {"trellis-mask": {...}} wrapper
WithHashinfo(m, hi) ==
  Obj("trellis-mask" :> Obj(Put(m.kv["trellis-mask"].kv, "hashinfo", hi)))

DoVerify(how, m, original, nonce) ==
  /\ sArgs' = [how |-> how, mask |-> m, original |-> original, nonce |-> nonce]
  /\ sOut'  = verify(m, original, nonce)
  /\ UNCHANGED <<sIn, sMask>>
  /\ UNCHANGED chainVars /\ UNCHANGED maskerVars /\ UNCHANGED resourceVars
  /\ UNCHANGED helperVars /\ UNCHANGED detailVars

MaskDone == sMask # NotRun /\ ~sMask.threw

\* verify with what was given to mask: the same original and the nonce passed
VerifySame ==
  /\ MaskDone /\ sIn.nonce # Undef
  /\ DoVerify("same", sMask.mask, sIn.original, sIn.nonce)

\* verify with the same original and the nonce mask returned
VerifyReturned ==
  /\ MaskDone
  /\ DoVerify("returned", sMask.mask, sIn.original, sMask.nonce)

VerifyOtherOriginal ==
  /\ MaskDone
  /\ \E o \in Originals \ {sIn.original} :
       DoVerify("original", sMask.mask, o, sMask.nonce)

VerifyOtherNonce ==
  /\ MaskDone
  /\ \E n \in (NonceStrings \cup FreshNonces) \ {sMask.nonce} :
       DoVerify("nonce", sMask.mask, sIn.original, n)

VerifyOtherHash ==
  /\ MaskDone
  /\ \E hi \in ForgedHashinfos :
       DoVerify("hashinfo", WithHashinfo(sMask.mask, hi), sIn.original, sMask.nonce)

\* what a caller can hand to verify in place of the mask that mask() made:
\* nothing, the bare descriptor, another version, no hashinfo
MalformedMasks(m) ==
  LET tm == m.kv["trellis-mask"]
  IN  {Undef, Null, tm,
       Obj("trellis-mask" :> Obj(Put(tm.kv, "version", Str("2.0")))),
       WithHashinfo(m, Null),
       Obj("trellis-mask" :>
             Obj("version" :> tm.kv["version"] @@ "url" :> tm.kv["url"]
                 @@ "nonceurl" :> tm.kv["nonceurl"]))}

VerifyMalformed ==
  /\ MaskDone
  /\ \E m \in MalformedMasks(sMask.mask) :
       \E o \in {sIn.original, Undef} :
         \E n \in {sMask.nonce, Undef} :
           DoVerify("malformed", m, o, n)

NextSingle ==
  \/ CallMask
  \/ VerifyMalformed
  \/ VerifySame
  \/ VerifyReturned
  \/ VerifyOtherOriginal
  \/ VerifyOtherNonce
  \/ VerifyOtherHash

SpecSingle == InitSingle /\ [][NextSingle]_vars

\* values the `!x` guards of verify let through
Accepted(j) == Truthy(j)

(***************************************************************************)
(* C1: round trip.  For every JSON original and every nonce string,        *)
(* verify({mask: mask({original, url, nonce, nonceurl}).mask, original,    *)
(* nonce}) returns valid = true and match = true.                          *)
(***************************************************************************)
C1_RoundTrip ==
  (sArgs # NotRun /\ sArgs.how = "same") => (sOut.valid /\ sOut.match)

(***************************************************************************)
(* C3: tamper detection in verify.  For a mask made by mask(), verify with *)
(* a different present original, a different present nonce, or a replaced  *)
(* hashinfo returns valid = true and match = false.                        *)
(***************************************************************************)
Present(j) == j # Undef /\ j # Null

C3_TamperDetected ==
  ( /\ sArgs # NotRun /\ sArgs.how \in {"original", "nonce", "hashinfo"}
    /\ Present(sArgs.original) /\ Present(sArgs.nonce) )
    => (sOut.valid /\ ~sOut.match)

\* the descriptor verify works on: the member "trellis-mask" when there is one
Descriptor(m0) ==
  IF IsObj(m0) /\ "trellis-mask" \in DOMAIN m0.kv
  THEN m0.kv["trellis-mask"] ELSE m0

(***************************************************************************)
(* C11: verify returns valid = false and match = false exactly when the    *)
(* mask is absent, its version is not "1.0", its hashinfo is missing, the  *)
(* original is absent or the nonce is absent; for every other input        *)
(* valid = true and match is the equality of hashJSON({original, nonce})   *)
(* with mask.hashinfo.                                                     *)
(***************************************************************************)
C11_VerifyVerdict ==
  sArgs # NotRun =>
    LET m   == Descriptor(sArgs.mask)
        bad == \/ ~Present(m)
               \/ Member(m, "version") # Str("1.0")
               \/ ~Present(Member(m, "hashinfo"))
               \/ ~Present(sArgs.original)
               \/ ~Present(sArgs.nonce)
    IN  IF bad THEN sOut = Invalid
        ELSE /\ sOut.valid
             /\ sOut.match = (Member(m, "hashinfo")
                                = commit(sArgs.original, sArgs.nonce))

\* a nonce is passed when the argument is a non-empty string; line 99 takes
\* the empty string, like a missing argument, for none
NoncePassed == Present(sIn.nonce) /\ sIn.nonce # Str("")

C14_MissingNonceurl ==
  /\ (sMask # NotRun /\ ~Present(sIn.nonceurl)) => sMask = Threw
  /\ MaskDone => (Present(sIn.nonceurl) /\ sMask.nonceurl = sIn.nonceurl)

\* a nonce was passed and mask still failed
C14_Witness ==
  /\ sMask = Threw /\ sIn.nonceurl = Undef /\ NoncePassed

-----------------------------------------------------------------------------
(***************************************************************************)
(* SpecChain: a producer builds a chain of resources on the remote, each   *)
(* round taking the newest resource and storing its result as a new one;   *)
(* the remote may then be tampered with once; verifyRemoteResource then    *)
(* runs on the newest resource, one peel round per step.                   *)
(***************************************************************************)
MaxRounds == 2

K1   == <<"key1">>
Loc  == <<"location">>
Here == <<"location", "here">>
Pointers  == {K1, Loc, Here}
PathLists == {<<K1>>, <<Loc>>, <<Here>>, <<K1, Loc>>, <<Loc, Here>>, <<Here, Loc>>}

\* the resource of the tests, and one whose leaves are 0 and ""
ResourceBodies ==
  {Obj("key1" :> Str("not masked string")
       @@ "location" :> Obj("here" :> Str("we are!!"))),
   Obj("key1" :> Num(0) @@ "location" :> Obj("here" :> Str("")))}

\* what makeNonce() returns in a round that finds no stored nonce
ChainFresh == {Str("r1")}

EditValues == {Str("I CHANGED!!!!!!"), Num(0)}

NoTamper == [edit |-> Undef, badsig |-> 0]

InitChain ==
  /\ \E b \in ResourceBodies : store = <<Doc(b, <<>>)>>
  /\ nonces = <<Str("12345")>>
  /\ rounds = <<>>
  /\ edited = NoTamper
  /\ vpc = "build"
  /\ vdoc = Undef
  /\ frames = <<>>
  /\ result = Undef
  /\ vlog = [verifies |-> 0, gets |-> <<>>, mism |-> FALSE]
  /\ SingleIdle
  /\ MaskerIdle
  /\ ResourceIdle
  /\ OthersIdle

Newest == Len(store)

\* ---- producer -------------------------------------------------------------
\* maskResource on the newest resource (with the nonce stored for it, or a new
\* one that is then stored), signResource declaring D, result stored as new
MaskSign(P, D, fresh, trusted) ==
  \E src \in {Newest} :
  \E mr \in {maskResource(store[src], Url(src, <<>>), Arr(P), nonces[src], Undef, fresh)} :
      /\ ~mr.threw
      /\ store'  = Append(store, signResource(mr.resource, Arr(D), trusted))
      /\ nonces' = Append([nonces EXCEPT ![src] = mr.nonce], Undef)
      /\ rounds' = Append(rounds, [kind |-> "mask", src |-> src,
                                   masked |-> P, declared |-> D])

RoundMaskSign ==
  /\ vpc = "build" /\ Len(rounds) < MaxRounds
  /\ \E P \in PathLists, fresh \in ChainFresh :
       MaskSign(P, P, fresh, FALSE)
  /\ UNCHANGED <<edited, vpc, vdoc, frames, result, vlog>>
  /\ UNCHANGED singleVars /\ UNCHANGED maskerVars /\ UNCHANGED resourceVars
  /\ UNCHANGED helperVars /\ UNCHANGED detailVars

\* a round whose signature declares another path than the one it masked
RoundMisdeclared ==
  /\ vpc = "build" /\ Len(rounds) < MaxRounds
  /\ \E p \in {K1, Loc}, fresh \in ChainFresh :
       \E q \in Pointers \ {p} : MaskSign(<<p>>, <<q>>, fresh, FALSE)
  /\ UNCHANGED <<edited, vpc, vdoc, frames, result, vlog>>
  /\ UNCHANGED singleVars /\ UNCHANGED maskerVars /\ UNCHANGED resourceVars
  /\ UNCHANGED helperVars /\ UNCHANGED detailVars

\* maskResource alone: the masked copy is stored unsigned
RoundMaskOnly ==
  /\ vpc = "build" /\ Len(rounds) < MaxRounds
  /\ \E p \in {K1, Loc}, fresh \in ChainFresh :
       \E src \in {Newest} :
       \E mr \in {maskResource(store[src], Url(src, <<>>), Arr(<<p>>),
                               nonces[src], Undef, fresh)} :
           /\ ~mr.threw
           /\ store'  = Append(store, mr.resource)
           /\ nonces' = Append([nonces EXCEPT ![src] = mr.nonce], Undef)
           /\ rounds' = Append(rounds, [kind |-> "maskonly", src |-> src,
                                        masked |-> <<p>>, declared |-> <<>>])
  /\ UNCHANGED <<edited, vpc, vdoc, frames, result, vlog>>
  /\ UNCHANGED singleVars /\ UNCHANGED maskerVars /\ UNCHANGED resourceVars
  /\ UNCHANGED helperVars /\ UNCHANGED detailVars

\* a signature that is not a mask signature, made with tsig.sign directly
RoundSignOther ==
  /\ vpc = "build" /\ Len(rounds) < MaxRounds
  /\ \E type \in {"transcription", "modification"}, trusted \in BOOLEAN :
       /\ type = "modification" => ~trusted
       /\ store'  = Append(store, tsigSign(store[Newest], type, Undef, trusted))
       /\ rounds' = Append(rounds, [kind |-> type, src |-> Newest,
                                    masked |-> <<>>, declared |-> <<>>])
  /\ nonces' = Append(nonces, Undef)
  /\ UNCHANGED <<edited, vpc, vdoc, frames, result, vlog>>
  /\ UNCHANGED singleVars /\ UNCHANGED maskerVars /\ UNCHANGED resourceVars
  /\ UNCHANGED helperVars /\ UNCHANGED detailVars

\* ---- tampering ------------------------------------------------------------
\* the remote original of a path some round masked is edited afterwards
EditRemote ==
  /\ vpc = "build"
  /\ \E k \in 1..Len(rounds) :
       \E i \in 1..Len(rounds[k].masked) :
         LET id  == rounds[k].src
             p   == rounds[k].masked[i]
             old == jpGet(store[id].body, p)
         IN  \E v \in EditValues \ {old} :
               /\ store'  = [store EXCEPT ![id].body = jpSet(@, p, v)]
               /\ edited' = [edit |-> [id |-> id, ptr |-> p, round |-> k,
                                       old |-> old, new |-> v],
                             badsig |-> 0]
  /\ vpc' = "ready"
  /\ UNCHANGED <<nonces, rounds, vdoc, frames, result, vlog>>
  /\ UNCHANGED singleVars /\ UNCHANGED maskerVars /\ UNCHANGED resourceVars
  /\ UNCHANGED helperVars /\ UNCHANGED detailVars

\* one signature of the newest resource no longer verifies
CorruptSignature ==
  /\ vpc = "build"
  /\ \E k \in 1..Len(store[Newest].sigs) :
       /\ store'  = [store EXCEPT ![Newest].sigs[k].valid = FALSE]
       /\ edited' = [edit |-> Undef, badsig |-> k]
  /\ vpc' = "ready"
  /\ UNCHANGED <<nonces, rounds, vdoc, frames, result, vlog>>
  /\ UNCHANGED singleVars /\ UNCHANGED maskerVars /\ UNCHANGED resourceVars
  /\ UNCHANGED helperVars /\ UNCHANGED detailVars


\* ---- verifyRemoteResource (src/index.js 382-452) ----------------------------
\* a && b on JavaScript values
JAnd(a, b) == IF Truthy(a) THEN b ELSE a

\* line 394: the sigResult of a resource without signatures
NoSignatureTrue(resource) ==
  [unchanged |-> TRUE, trusted |-> TRUE, match |-> TRUE, valid |-> TRUE,
   original |-> resource, payload |-> Undef]

NoSignature(resource) ==
  [unchanged |-> FALSE, trusted |-> FALSE, match |-> TRUE, valid |-> TRUE,
   original |-> resource, payload |-> Undef]

\* line 399: the round aborts on an invalid signature
NeverAborts(sigResult) == FALSE

SignatureInvalid(sigResult) == ~sigResult.valid

\* line 401: what the aborted round returns (no trusted, no original)
FatalInvalid ==
  [trusted |-> Undef, unchanged |-> Bool(FALSE), valid |-> Bool(FALSE),
   match |-> Bool(FALSE), original |-> Undef]

\* lines 405-406, 410
IsMaskPayload(payload) == Truthy(payload) /\ payload.type = "mask"

ModificationIgnored(payload) == FALSE

IsModificationPayload(payload) ==
  Truthy(payload) /\ payload.type # "mask" /\ payload.type = "modification"

\* line 404: the reconstructResult of a round that reconstructs nothing
NoReconstruct(sigResult) ==
  [threw |-> FALSE, valid |-> sigResult.valid, match |-> TRUE,
   resource |-> sigResult.original, gets |-> <<>>, mism |-> FALSE]

\* a last round that contributes false to trusted and unchanged
LastRoundFalse(resource) ==
  [trusted |-> Bool(FALSE), unchanged |-> Bool(FALSE), valid |-> Bool(TRUE),
   match |-> Bool(TRUE), original |-> resource]

\* line 418: nextRound when no signature is left
LastRound(resource) ==
  [trusted |-> Bool(TRUE), unchanged |-> Bool(TRUE), valid |-> Bool(TRUE),
   match |-> Bool(TRUE), original |-> resource]

\* a combination that forgets the deeper rounds' match
combineRoundOwnMatch(sig, rc, nextRound) ==
  [trusted   |-> JAnd(Bool(sig.trusted), nextRound.trusted),
   unchanged |-> JAnd(Bool(sig.unchanged), nextRound.unchanged),
   valid     |-> JAnd(JAnd(Bool(sig.valid), nextRound.valid), Bool(rc.valid)),
   match     |-> Bool(rc.match),
   original  |-> nextRound.original]

combineRoundOwnUnchanged(sig, rc, nextRound) ==
  [trusted   |-> JAnd(Bool(sig.trusted), nextRound.trusted),
   unchanged |-> Bool(sig.unchanged),
   valid     |-> JAnd(JAnd(Bool(sig.valid), nextRound.valid), Bool(rc.valid)),
   match     |-> JAnd(nextRound.match, Bool(rc.match)),
   original  |-> nextRound.original]

\* lines 425-432
combineRound(sig, rc, nextRound) ==
  [trusted   |-> JAnd(Bool(sig.trusted), nextRound.trusted),
   unchanged |-> JAnd(Bool(sig.unchanged), nextRound.unchanged),
   valid     |-> JAnd(JAnd(Bool(sig.valid), nextRound.valid), Bool(rc.valid)),
   match     |-> JAnd(nextRound.match, Bool(rc.match)),
   original  |-> nextRound.original]

\* the value round i of the recursion returns, given the rounds entered
RECURSIVE roundReturn(_, _)
roundReturn(fs, i) ==
  IF fs[i].invalid THEN FatalInvalid
  ELSE combineRound(fs[i].sig, fs[i].rc,
                    IF i < Len(fs) THEN roundReturn(fs, i + 1)
                    ELSE LastRound(fs[i].resource))

\* lines 383-388: the GET of the document at url, which is the newest
\* resource or a resource the remote does not hold; a failed GET is rethrown
VStart ==
  /\ vpc \in {"build", "ready"}
  /\ \E id \in {Newest, Newest + 1} :
       IF id \in DOMAIN store
       THEN vpc' = "peel" /\ vdoc' = store[id]
       ELSE vpc' = "nofetch" /\ vdoc' = Undef
  /\ UNCHANGED <<store, nonces, rounds, edited, frames, result, vlog>>
  /\ UNCHANGED singleVars /\ UNCHANGED maskerVars /\ UNCHANGED resourceVars
  /\ UNCHANGED helperVars /\ UNCHANGED detailVars

\* one call of recursiveVerifyMaskSignatures, up to its recursive call
VPeel ==
  /\ vpc = "peel"
  /\ \E sig \in {IF vdoc.sigs # <<>> THEN tsigVerify(vdoc) ELSE NoSignature(vdoc)} :
     \E rc \in {IF IsMaskPayload(sig.payload)
                    THEN reconstructOriginalFromMaskPaths(sig.original, sig.payload.paths)
                    ELSE NoReconstruct(sig)} :
     LET hasSig  == vdoc.sigs # <<>>
         abort   == SignatureInvalid(sig)
         throws  == ~abort /\ (IsModificationPayload(sig.payload) \/ rc.threw)
         reached == ~abort /\ ~IsModificationPayload(sig.payload)
         frame   == [invalid |-> abort,
                     sig |-> [trusted |-> sig.trusted, unchanged |-> sig.unchanged,
                              valid |-> sig.valid],
                     rc |-> [valid |-> rc.valid, match |-> rc.match],
                     resource |-> IF abort THEN sig.original ELSE rc.resource,
                     gets |-> IF abort THEN <<>> ELSE rc.gets]
     IN  /\ vlog' = [verifies |-> vlog.verifies + (IF hasSig THEN 1 ELSE 0),
                     gets |-> vlog.gets \o (IF reached THEN rc.gets ELSE <<>>),
                     mism |-> vlog.mism \/ (reached /\ ~rc.threw /\ rc.mism)]
         /\ IF throws
            THEN /\ vpc' = "threw"
                 /\ UNCHANGED <<vdoc, frames>>
            ELSE /\ frames' = Append(frames, frame)
                 /\ vdoc'   = frame.resource
                 /\ vpc'    = IF ~abort /\ rc.resource.sigs # <<>>
                              THEN "peel" ELSE "unwind"
  /\ UNCHANGED <<store, nonces, rounds, edited, result>>
  /\ UNCHANGED singleVars /\ UNCHANGED maskerVars /\ UNCHANGED resourceVars
  /\ UNCHANGED helperVars /\ UNCHANGED detailVars

\* the recursion returns through every round entered (line 435)
VUnwind ==
  /\ vpc = "unwind"
  /\ result' = roundReturn(frames, 1)
  /\ vpc' = "final"
  /\ UNCHANGED <<store, nonces, rounds, edited, vdoc, frames, vlog>>
  /\ UNCHANGED singleVars /\ UNCHANGED maskerVars /\ UNCHANGED resourceVars
  /\ UNCHANGED helperVars /\ UNCHANGED detailVars

\* lines 436-451: the masks that remain after the peel
VFinal ==
  /\ vpc = "final"
  /\ \E paths \in {findAllMaskPathsInResource(result.original)} :
         IF Len(paths) < 1
         THEN /\ vpc' = "done"
              /\ UNCHANGED <<result, vlog>>
         ELSE \E rc \in {reconstructOriginalFromMaskPaths(result.original, Arr(paths))} :
              /\ vlog' = [verifies |-> vlog.verifies,
                          gets |-> vlog.gets \o rc.gets,
                          mism |-> vlog.mism \/ (~rc.threw /\ rc.mism)]
              /\ IF rc.threw
                 THEN /\ vpc' = "threw"
                      /\ UNCHANGED result
                 ELSE /\ vpc' = "done"
                      /\ result' = [trusted   |-> result.trusted,
                                    unchanged |-> result.unchanged,
                                    match     |-> JAnd(result.match, Bool(rc.match)),
                                    valid     |-> JAnd(result.valid, Bool(rc.valid)),
                                    original  |-> rc.resource]
  /\ UNCHANGED <<store, nonces, rounds, edited, vdoc, frames>>
  /\ UNCHANGED singleVars /\ UNCHANGED maskerVars /\ UNCHANGED resourceVars
  /\ UNCHANGED helperVars /\ UNCHANGED detailVars

NextChain ==
  \/ RoundMaskSign
  \/ RoundMisdeclared
  \/ RoundMaskOnly
  \/ RoundSignOther
  \/ EditRemote
  \/ CorruptSignature
  \/ VStart
  \/ VPeel
  \/ VUnwind
  \/ VFinal

SpecChain == InitChain /\ [][NextChain]_vars


-----------------------------------------------------------------------------
(***************************************************************************)
(* Properties of verifyRemoteResource                                      *)
(***************************************************************************)
T == Bool(TRUE)
F == Bool(FALSE)

Returned == vpc = "done"
Ended    == vpc \in {"done", "threw"}

\* the resource the chain started from, which carries no signature
Unmasked == store[1]

IsMaskRound(r) == r.kind = "mask"

\* every round is maskResource + signResource declaring the paths it masked,
\* or a transcription signature
HonestChain ==
  \A k \in 1..Len(rounds) :
    \/ rounds[k].kind = "transcription"
    \/ IsMaskRound(rounds[k]) /\ rounds[k].declared = rounds[k].masked

Untampered == edited = NoTamper

(***************************************************************************)
(* C2: end to end.  For any resource and any honest chain with untampered  *)
(* remotes, verifyRemoteResource returns valid, match and unchanged true   *)
(* and original equal to the unmasked resource without signatures.         *)
(***************************************************************************)
C2_EndToEnd ==
  (Ended /\ HonestChain /\ Untampered)
    => /\ Returned
       /\ result.valid = T /\ result.match = T
       /\ (rounds # <<>> => result.unchanged = T)
       /\ result.original = Unmasked

(***************************************************************************)
(* C5: a single mismatch is never lost.  If any per-mask verification of   *)
(* the call gave match = false, the returned match is false.               *)
(***************************************************************************)
C5_MismatchNeverLost ==
  (Returned /\ vlog.mism) => result.match = F

\* the newest round's masks mismatch while every deeper round matches
C5_Witness ==
  /\ Returned /\ vlog.mism
  /\ Len(frames) >= 2
  /\ ~frames[1].rc.match
  /\ \A i \in 2..Len(frames) : frames[i].rc.match /\ frames[i].sig.valid


\* the edit hit a path masked by round k of an honest, intact chain
EditedAfterMasking ==
  /\ edited.edit # Undef /\ edited.badsig = 0
  /\ HonestChain
  /\ IsMaskRound(rounds[edited.edit.round])

\* a signature lies beneath the signature of the round that masked the path
SignatureBeneath == store[edited.edit.id].sigs # <<>>

\* every GET the call made returned a value that verify accepts as present
AllFetchedAccepted ==
  \A i \in 1..Len(vlog.gets) : Accepted(Get(pathFromURL(vlog.gets[i])))

MaskOverEarlierSignature ==
  /\ Len(rounds) = 2
  /\ rounds[1].kind = "transcription"
  /\ IsMaskRound(rounds[2]) /\ rounds[2].declared = rounds[2].masked
  /\ edited.edit # Undef /\ edited.badsig = 0 /\ edited.edit.round = 2

(***************************************************************************)
(* C24: when a mask signature sits on top of an earlier signature made     *)
(* over the unmasked document and the remote original of the masked path   *)
(* is then edited, verifyRemoteResource returns valid = true,              *)
(* match = false and unchanged = false, and original holds the edited      *)
(* value: the earlier signature is checked against the document as         *)
(* reconstructed from the remote.                                          *)
(***************************************************************************)
C24_EditUnderEarlierSignature ==
  (Ended /\ MaskOverEarlierSignature)
    => /\ Returned
       /\ result.valid = T /\ result.match = F /\ result.unchanged = F
       /\ jpGet(result.original.body, edited.edit.ptr) = edited.edit.new

(***************************************************************************)
(* C6: out-of-order payload paths.  For successive single-path mask rounds *)
(* whose declared paths are a permutation of the masked ones and each      *)
(* differ from the path the round masked, verifyRemoteResource returns     *)
(* valid = true, match = true, unchanged = false and the unmasked          *)
(* resource.                                                               *)
(***************************************************************************)
OutOfOrderChain ==
  /\ Len(rounds) >= 2
  /\ \A k \in 1..Len(rounds) :
       /\ IsMaskRound(rounds[k])
       /\ Len(rounds[k].masked) = 1 /\ Len(rounds[k].declared) = 1
       /\ rounds[k].declared # rounds[k].masked
  /\ \A j, k \in 1..Len(rounds) :
       j # k => rounds[j].masked # rounds[k].masked
  /\ {rounds[k].declared[1] : k \in 1..Len(rounds)}
       = {rounds[k].masked[1] : k \in 1..Len(rounds)}

C6_OutOfOrder ==
  (Ended /\ OutOfOrderChain /\ Untampered)
    => /\ Returned
       /\ result.valid = T /\ result.match = T /\ result.unchanged = F
       /\ result.original = Unmasked

(***************************************************************************)
(* C7: a resource with no signatures and no masks gives valid = true,      *)
(* match = true, unchanged = false, trusted = false and the resource       *)
(* itself; unchanged and trusted are never true when no signature was      *)
(* verified.                                                               *)
(***************************************************************************)
C7_NoSignatureNoMask ==
  /\ (Returned /\ rounds = <<>>)
       => /\ result.valid = T /\ result.match = T
          /\ result.unchanged = F /\ result.trusted = F
          /\ result.original = store[Newest]
  /\ (Returned /\ vlog.verifies = 0)
       => (result.unchanged # T /\ result.trusted # T)

C7_Witness == Returned /\ rounds = <<>> /\ vlog.verifies = 0

(***************************************************************************)
(* C8: invalid signature.  Once tsig.verify has returned valid = false at  *)
(* some round, no deeper signature is verified, no mask of that round is   *)
(* fetched, the call does not throw, and it returns valid = false,         *)
(* match = false, unchanged = false.                                       *)
(***************************************************************************)
RECURSIVE getsBefore(_, _)
getsBefore(fs, n) ==
  IF n = 0 THEN <<>> ELSE getsBefore(fs, n - 1) \o fs[n].gets

InvalidSeen == \E i \in 1..Len(frames) : ~frames[i].sig.valid

C8_InvalidSignature ==
  InvalidSeen =>
    /\ vpc \in {"unwind", "final", "done"}
    /\ ~frames[Len(frames)].sig.valid
    /\ vlog.verifies = Len(frames)
    /\ vlog.gets = getsBefore(frames, Len(frames) - 1)
    /\ Returned =>
         (result.valid = F /\ result.match = F /\ result.unchanged = F)

\* the invalid signature sits beneath a mask round that was peeled first
C8_Witness ==
  /\ Returned /\ InvalidSeen
  /\ Len(frames) >= 2 /\ frames[1].gets # <<>>

(***************************************************************************)
(* C9: modification signatures are fatal.  Whenever a peel round takes a   *)
(* resource whose top-most signature is valid and of type modification,    *)
(* the call throws there and returns no verdict.                           *)
(***************************************************************************)
TopSignature == vdoc.sigs[Len(vdoc.sigs)]

AtModification ==
  /\ vpc = "peel" /\ vdoc.sigs # <<>>
  /\ TopSignature.valid /\ TopSignature.type = "modification"

C9_ModificationFatal ==
  [][AtModification => (vpc' = "threw" /\ result' = Undef)]_vars

\* thrown at the second round, beneath a signature that peeled cleanly
C9_Witness ==
  /\ vpc = "threw" /\ Len(frames) >= 1 /\ vdoc.sigs # <<>>
  /\ TopSignature.valid /\ TopSignature.type = "modification"

-----------------------------------------------------------------------------
(***************************************************************************)
(* SpecMasker: maskRemoteResourceAsNewResource (src/index.js 285-335),     *)
(* called by NumCallers callers on the same original, each call advancing  *)
(* from one await to the next.  A connection is passed in, as the tests    *)
(* do.  Every request may fail; a GET of the nonce answers with the stored *)
(* value, with "not found" when there is none, or with another error.      *)
(***************************************************************************)
NumCallers == 2

Callers == 1..NumCallers

MaskerUrl      == Url(1, <<>>)
MaskerOriginal ==
  Doc(Obj("key1" :> Str("not masked string")
          @@ "location" :> Obj("here" :> Str("we are!!"))), <<>>)
StoredNonce    == Str("12345")

\* the value makeNonce() returns in the call of caller c
makeNonce(c) == [t |-> "str", rnd |-> c]

MaskerArgs ==
  [url   : {Undef, Str(""), MaskerUrl},
   paths : {Undef, Arr(<<>>), Arr(<<K1>>)},
   sign  : BOOLEAN]

IdleCall ==
  [pc |-> "idle", url |-> Undef, paths |-> Undef, sign |-> FALSE,
   original |-> Undef, nonce |-> Null, resource |-> Undef, ret |-> Undef,
   reqs |-> <<>>]

\* one request of a call and whether it was answered without error
Req(op, ok) == [op |-> op, ok |-> ok]

InitMasker ==
  /\ mNonce \in {Undef, StoredNonce, Str("")}
  /\ mPosted = <<>>
  /\ mPuts = <<>>
  /\ mProc = [c \in Callers |-> IdleCall]
  /\ SingleIdle
  /\ ChainIdle
  /\ ResourceIdle
  /\ OthersIdle

MaskerStep(c, rec) ==
  /\ mProc' = [mProc EXCEPT ![c] = rec]
  /\ UNCHANGED singleVars /\ UNCHANGED chainVars /\ UNCHANGED resourceVars
  /\ UNCHANGED helperVars /\ UNCHANGED detailVars

\* lines 286-293: the argument checks, up to the first request
MrCall(c) ==
  /\ mProc[c].pc = "idle"
  /\ \E a \in MaskerArgs :
       LET bad == \/ ~Truthy(a.url)
                  \/ ~Truthy(a.paths) \/ Len(a.paths.items) < 1
       IN  MaskerStep(c, [mProc[c] EXCEPT
                            !.pc = IF bad THEN "failed" ELSE "getOriginal",
                            !.url = a.url, !.paths = a.paths, !.sign = a.sign])
  /\ UNCHANGED <<mNonce, mPosted, mPuts>>

\* lines 299-301: GET of the original; a failure is rethrown
MrGetOriginal(c) ==
  /\ mProc[c].pc = "getOriginal"
  /\ \E ok \in BOOLEAN :
       MaskerStep(c, IF ok
                     THEN [mProc[c] EXCEPT !.pc = "getNonce",
                                           !.original = MaskerOriginal,
                                           !.reqs = Append(@, Req("getOriginal", TRUE))]
                     ELSE [mProc[c] EXCEPT !.pc = "failed",
                                           !.reqs = Append(@, Req("getOriginal", FALSE))])
  /\ UNCHANGED <<mNonce, mPosted, mPuts>>

\* lines 305-313: GET of the nonce; any failure leads to makeNonce()
MrGetNonce(c) ==
  /\ mProc[c].pc = "getNonce"
  /\ \E answer \in {"ok", "notfound", "error"} :
       /\ answer = "ok" => mNonce # Undef
       /\ answer = "notfound" => mNonce = Undef
       /\ MaskerStep(c, IF answer = "ok"
                        THEN [mProc[c] EXCEPT !.pc = "mask", !.nonce = mNonce,
                                              !.reqs = Append(@, Req("getNonce", TRUE))]
                        ELSE [mProc[c] EXCEPT !.pc = "putNonce",
                                              !.nonce = makeNonce(c),
                                              !.reqs = Append(@, Req("getNonce", FALSE))])
  /\ UNCHANGED <<mNonce, mPosted, mPuts>>

\* a PUT of the nonce whose failure is swallowed: the call goes on to mask
MrPutNonceGoesOn(c) ==
  /\ mProc[c].pc = "putNonce"
  /\ \E ok \in BOOLEAN :
       IF ok
       THEN /\ mNonce' = mProc[c].nonce
            /\ mPuts' = Append(mPuts, [by |-> c, old |-> mNonce,
                                       new |-> mProc[c].nonce])
            /\ MaskerStep(c, [mProc[c] EXCEPT !.pc = "mask",
                                 !.reqs = Append(@, Req("putNonce", TRUE))])
       ELSE /\ MaskerStep(c, [mProc[c] EXCEPT !.pc = "mask",
                                 !.reqs = Append(@, Req("putNonce", FALSE))])
            /\ UNCHANGED <<mNonce, mPuts>>
  /\ UNCHANGED mPosted

\* lines 314-316: PUT of the new nonce; a failure is rethrown
MrPutNonce(c) ==
  /\ mProc[c].pc = "putNonce"
  /\ \E ok \in BOOLEAN :
       IF ok
       THEN /\ mNonce' = mProc[c].nonce
            /\ mPuts' = Append(mPuts, [by |-> c, old |-> mNonce,
                                       new |-> mProc[c].nonce])
            /\ MaskerStep(c, [mProc[c] EXCEPT !.pc = "mask",
                                 !.reqs = Append(@, Req("putNonce", TRUE))])
       ELSE /\ MaskerStep(c, [mProc[c] EXCEPT !.pc = "failed",
                                 !.reqs = Append(@, Req("putNonce", FALSE))])
            /\ UNCHANGED <<mNonce, mPuts>>
  /\ UNCHANGED mPosted

\* lines 319-326: maskResource, then the signature callback if one was given
MrMask(c) ==
  /\ mProc[c].pc = "mask"
  /\ LET me == mProc[c]
         mr == maskResource(me.original, me.url, me.paths, me.nonce,
                            UrlCat(me.url, NoncePtr), makeNonce(c))
     IN  MaskerStep(c,
           IF mr.threw THEN [me EXCEPT !.pc = "failed"]
           ELSE [me EXCEPT !.pc = "post",
                           !.resource =
                              IF me.sign
                              THEN signResource(mr.resource, me.paths, FALSE)
                              ELSE mr.resource,
                           !.reqs = IF me.sign
                                    THEN Append(@, Req("callback", TRUE))
                                    ELSE @])
  /\ UNCHANGED <<mNonce, mPosted, mPuts>>

\* the content-location header of the answer to the n-th POST to /resources,
\* as its characters: the "/" and the rest
contentLocation(n) == <<"/", "resources/", n>>

\* a slice that keeps the whole string
sliceNothing(str) == str

\* String.prototype.slice(1)
slice1(str) == Tail(str)

\* lines 329-334: POST of the masked copy; returns the id of the new resource
MrPost(c) ==
  /\ mProc[c].pc = "post"
  /\ \E ok \in BOOLEAN :
       IF ok
       THEN /\ mPosted' = Append(mPosted, mProc[c].resource)
            /\ MaskerStep(c, [mProc[c] EXCEPT !.pc = "done",
                                 !.ret = slice1(contentLocation(Len(mPosted) + 1)),
                                 !.reqs = Append(@, Req("post", TRUE))])
       ELSE /\ MaskerStep(c, [mProc[c] EXCEPT !.pc = "failed",
                                 !.reqs = Append(@, Req("post", FALSE))])
            /\ UNCHANGED mPosted
  /\ UNCHANGED <<mNonce, mPuts>>

NextMasker ==
  \E c \in Callers :
    \/ MrCall(c)
    \/ MrGetOriginal(c)
    \/ MrGetNonce(c)
    \/ MrPutNonce(c)
    \/ MrMask(c)
    \/ MrPost(c)

SpecMasker == InitMasker /\ [][NextMasker]_vars

(***************************************************************************)
(* C10: nonce write-once.  In every execution, with callers running        *)
(* concurrently and with GETs of the nonce that fail for other reasons     *)
(* than absence, no PUT replaces a nonce already stored at                 *)
(* url + "/_meta/nonce".                                                   *)
(***************************************************************************)
C10_NonceWriteOnce ==
  \A i \in 1..Len(mPuts) : mPuts[i].old = Undef

\* the arguments the call of caller c was made with are rejected
BadArgs(c) ==
  \/ ~Present(mProc[c].url) \/ mProc[c].url = Str("")
  \/ ~Present(mProc[c].paths) \/ mProc[c].paths.items = <<>>

\* a request that fails the call; a failed GET of the nonce does not, it
\* leads to a new nonce
Failing(r) == ~r.ok /\ r.op # "getNonce"

(***************************************************************************)
(* C22: maskRemoteResourceAsNewResource aborts at the first failing step   *)
(* and runs no later step.  An empty url or an absent or empty paths list  *)
(* fails before any request; a failed GET of the original, PUT of a new    *)
(* nonce or POST is the last request of the call, which fails and returns  *)
(* no id; so a failed GET leaves no PUT and no POST, a failed PUT no POST, *)
(* and a nonce PUT before a failed POST stays stored (no request undoes    *)
(* it).                                                                    *)
(***************************************************************************)
C22_AbortsAtFirstFailure ==
  \A c \in Callers :
    LET me == mProc[c]
    IN  me.pc # "idle" =>
          /\ BadArgs(c) => (me.pc = "failed" /\ me.reqs = <<>>)
          /\ \A i \in 1..Len(me.reqs) :
               Failing(me.reqs[i]) =>
                 /\ i = Len(me.reqs)
                 /\ me.pc = "failed" /\ me.ret = Undef
          /\ me.pc = "failed" => me.ret = Undef
          /\ (\E i \in 1..Len(me.reqs) : me.reqs[i] = Req("putNonce", TRUE))
               => /\ \E k \in 1..Len(mPuts) :
                       mPuts[k].by = c /\ mPuts[k].new = me.nonce
                  /\ mNonce # Undef
                  /\ (\A k \in 1..Len(mPuts) : mPuts[k].by = c)
                       => mNonce = me.nonce

\* a call whose POST failed after it had PUT a new nonce, which is stored
C22_Witness ==
  \E c \in Callers :
    /\ mProc[c].pc = "failed"
    /\ mProc[c].reqs = <<Req("getOriginal", TRUE), Req("getNonce", FALSE),
                         Req("putNonce", TRUE), Req("post", FALSE)>>
    /\ mNonce = mProc[c].nonce
    /\ mPosted = <<>>

\* what the call of caller c has to POST: the masked original, signed by the
\* callback when there is one
ExpectedBody(c) ==
  LET me == mProc[c]
      mr == maskResource(me.original, me.url, me.paths, me.nonce,
                         UrlCat(me.url, NoncePtr), makeNonce(c)).resource
  IN  IF me.sign THEN signResource(mr, me.paths, FALSE) ELSE mr

Posts(c) == SelectSeq(mProc[c].reqs, LAMBDA r : r.op = "post")

(***************************************************************************)
(* C23: on success maskRemoteResourceAsNewResource has issued exactly one  *)
(* POST to /resources, whose body is maskResource(original, url, paths,    *)
(* nonce, url + "/_meta/nonce").resource, or what signatureCallback        *)
(* returned for it when a callback is given, and returns the               *)
(* content-location header of the answer without its leading "/".          *)
(***************************************************************************)
C23_PostsMaskedCopy ==
  \A c \in Callers :
    mProc[c].pc = "done" =>
      /\ Posts(c) = <<Req("post", TRUE)>>
      /\ \E n \in 1..Len(mPosted) :
           /\ mPosted[n] = ExpectedBody(c)
           /\ <<"/">> \o mProc[c].ret = contentLocation(n)

\* a call with a callback succeeded on a nonce it made itself
C23_Witness ==
  \E c \in Callers :
    /\ mProc[c].pc = "done" /\ mProc[c].sign
    /\ mProc[c].nonce = makeNonce(c)
    /\ mProc[c].ret = <<"resources/", 1>>
    /\ mPosted[1].sigs # <<>>
    /\ jpGet(mPosted[1].body, K1) # jpGet(MaskerOriginal.body, K1)

-----------------------------------------------------------------------------
(***************************************************************************)
(* SpecResource: maskResource on a resource that lives on the remote, then *)
(* the calls that take its result: findAllMaskPathsInResource,             *)
(* verifyRemote on one mask, reconstructOriginalFromMaskPaths.  The remote *)
(* original or its nonce may be changed after masking.                     *)
(***************************************************************************)
\* a resource holding an object with a "trellis-mask" key that is no descriptor
PseudoMaskBody ==
  Obj("key1" :> Obj("trellis-mask" :> Str("not a descriptor"))
      @@ "location" :> Obj("here" :> Str("we are!!")))

ResourceInputs == ResourceBodies \cup {PseudoMaskBody}

ResourcePathLists == PathLists \cup {<<K1, K1>>}

RemoteNonce == Str("12345")

ChainOff ==
  /\ rounds = <<>> /\ edited = Undef /\ vpc = "off" /\ vdoc = Undef
  /\ frames = <<>> /\ result = Undef /\ vlog = <<>>

chainOffVars == <<rounds, edited, vpc, vdoc, frames, result, vlog>>

InitResource ==
  /\ \E b \in ResourceInputs :
       /\ store = <<Doc(b, <<>>)>>
       /\ rIn \in [resource : {Doc(b, <<>>)},
                   url      : {Undef, Str(""), Url(1, <<>>)},
                   paths    : {Arr(P) : P \in ResourcePathLists},
                   nonce    : {Undef, RemoteNonce},
                   nonceurl : {Undef, Url(1, <<"_meta", "nonces">>)},
                   fresh    : {Str("r1")}]
  /\ nonces = <<RemoteNonce>>
  /\ rMasked = NotRun /\ rOp = NotRun /\ rOut = NotRun
  /\ ChainOff
  /\ SingleIdle
  /\ MaskerIdle
  /\ OthersIdle

ResourceFrame ==
  /\ UNCHANGED chainOffVars /\ UNCHANGED singleVars /\ UNCHANGED maskerVars
  /\ UNCHANGED helperVars /\ UNCHANGED detailVars

CallMaskResource ==
  /\ rMasked = NotRun
  /\ rMasked' = maskResource(rIn.resource, rIn.url, rIn.paths, rIn.nonce,
                             rIn.nonceurl, rIn.fresh)
  /\ UNCHANGED <<rIn, rOp, rOut, store, nonces>>
  /\ ResourceFrame

\* maskResource returned a masked resource
MaskedDoc ==
  /\ rMasked # NotRun /\ ~rMasked.threw /\ rMasked.resource.t = "doc"

\* the remote original is edited after masking, once
TamperOriginal ==
  /\ MaskedDoc /\ rOp = NotRun /\ store[1] = rIn.resource
  /\ \E p \in {K1, Loc} : \E v \in EditValues :
       /\ v # jpGet(store[1].body, p)
       /\ store' = <<Doc(jpSet(store[1].body, p, v), <<>>)>>
  /\ UNCHANGED <<rIn, rMasked, rOp, rOut, nonces>>
  /\ ResourceFrame

\* the remote nonce is replaced or removed after masking, once
TamperNonce ==
  /\ MaskedDoc /\ rOp = NotRun /\ nonces = <<RemoteNonce>>
  /\ \E n \in {Str("another nonce"), Undef} : nonces' = <<n>>
  /\ UNCHANGED <<rIn, rMasked, rOp, rOut, store>>
  /\ ResourceFrame

ResourceCall(op, arg, paths, out) ==
  /\ rOp' = [op |-> op, arg |-> arg, paths |-> paths]
  /\ rOut' = out
  /\ UNCHANGED <<rIn, rMasked, store, nonces>>
  /\ ResourceFrame

CallFind ==
  /\ rMasked # NotRun
  /\ \E d \in {rIn.resource} \cup (IF MaskedDoc THEN {rMasked.resource} ELSE {}) :
       ResourceCall("find", d, Undef, findAllMaskPathsInResource(d))

\* what lies at the masked paths, and descriptors that point nowhere
MasksToVerify ==
  LET at == {jpGet(rMasked.resource.body, rIn.paths.items[i]) :
               i \in 1..Len(rIn.paths.items)}
  IN  {m \in at : ~IsThrew(m)}
      \cup {Obj("trellis-mask" :>
                  Obj("version" :> Str("1.0")
                      @@ "hashinfo" :> commit(Str("abc"), RemoteNonce)
                      @@ "nonceurl" :> Url(1, NoncePtr))),
            Obj("trellis-mask" :>
                  Obj("version" :> Str("1.0")
                      @@ "hashinfo" :> commit(Str("abc"), RemoteNonce)
                      @@ "url" :> Url(2, K1)
                      @@ "nonceurl" :> Url(1, NoncePtr))),
            Obj("trellis-mask" :>
                  Obj("version" :> Str("1.0")
                      @@ "hashinfo" :> commit(Str("abc"), RemoteNonce)
                      @@ "url" :> Url(1, <<"key2">>)
                      @@ "nonceurl" :> Url(1, NoncePtr)))}

CallVerifyRemote ==
  /\ MaskedDoc
  /\ \E m \in MasksToVerify :
       ResourceCall("verifyRemote", m, Undef, verifyRemote(m))

CallReconstruct ==
  /\ MaskedDoc
  /\ \E ps \in {rIn.paths, Arr(findAllMaskPathsInResource(rMasked.resource)),
                 Arr(<<>>)} :
       ResourceCall("reconstruct", rMasked.resource, ps,
                    reconstructOriginalFromMaskPaths(rMasked.resource, ps))

NextResource ==
  \/ CallMaskResource
  \/ TamperOriginal
  \/ TamperNonce
  \/ CallFind
  \/ CallVerifyRemote
  \/ CallReconstruct

SpecResource == InitResource /\ [][NextResource]_vars

\* the GET of path u succeeds
GetSucceeds(u) ==
  /\ Head(u) \in DOMAIN store
  /\ IF Tail(u) = NoncePtr THEN nonces[Head(u)] # Undef
     ELSE ~IsThrew(jpGet(store[Head(u)].body, Tail(u)))

(***************************************************************************)
(* C12: verifyRemote never throws on a fetch problem.  If the mask has no  *)
(* url or one of the two GETs fails, it returns valid = false and          *)
(* match = false; in every other case valid and match are those of verify  *)
(* on the fetched original and nonce, which are returned.                  *)
(***************************************************************************)
C12_VerifyRemote ==
  (rOp # NotRun /\ rOp.op = "verifyRemote") =>
    LET m        == Descriptor(rOp.arg)
        url      == Member(m, "url")
        nonceurl == Member(m, "nonceurl")
    IN  /\ ~rOut.threw
        /\ IF ~Present(url) \/ ~GetSucceeds(url.u) \/ ~GetSucceeds(nonceurl.u)
           THEN ~rOut.valid /\ ~rOut.match
           ELSE LET v == verify(rOp.arg, Get(url.u), Get(nonceurl.u))
                IN  /\ rOut.valid = v.valid /\ rOut.match = v.match
                    /\ rOut.original = Get(url.u)
                    /\ rOut.nonce = Get(nonceurl.u)

\* p is q or lies above q
IsPrefix(p, q) == Len(p) <= Len(q) /\ SubSeq(q, 1, Len(p)) = p

Items(arr) == {arr.items[i] : i \in 1..Len(arr.items)}

\* the pointers that exist in the resources of ResourceInputs
InputPointers(body) ==
  {q \in Pointers \cup {<<"key1", "trellis-mask">>} : ~IsThrew(jpGet(body, q))}

(***************************************************************************)
(* C15: maskResource with a urlToResource returns a resource equal to the  *)
(* input everywhere except at each pointer p of paths, where the value is  *)
(* mask({original: input at p, url: urlToResource + p, nonce,              *)
(* nonceurl}).mask; one nonce and one nonceurl serve all paths and are     *)
(* returned, the nonce defaulting to a generated one and the nonceurl to   *)
(* urlToResource + "/_meta/nonce".                                         *)
(***************************************************************************)
C15_MaskResourceShape ==
  (MaskedDoc /\ Present(rIn.url)) =>
    LET n      == IF Present(rIn.nonce) THEN rIn.nonce ELSE rIn.fresh
        nu     == IF Present(rIn.nonceurl) THEN rIn.nonceurl
                  ELSE UrlCat(rIn.url, NoncePtr)
        input  == rIn.resource.body
        output == rMasked.resource.body
    IN  /\ rMasked.nonce = n /\ rMasked.nonceurl = nu
        /\ rMasked.resource.sigs = rIn.resource.sigs
        /\ DOMAIN output.kv = DOMAIN input.kv
        /\ \A p \in Items(rIn.paths) :
             jpGet(output, p)
               = mask(jpGet(input, p), UrlCat(rIn.url, p), n, nu, n).mask
        /\ \A q \in InputPointers(input) :
             (\A p \in Items(rIn.paths) : ~IsPrefix(p, q) /\ ~IsPrefix(q, p))
               => jpGet(output, q) = jpGet(input, q)

(***************************************************************************)
(* C16: for every resource and every list P of pointers that exist in it,  *)
(* lists with one pointer a prefix of another included,                    *)
(* findAllMaskPathsInResource(maskResource({resource, urlToResource,       *)
(* paths: P}).resource) contains every pointer of P.                       *)
(***************************************************************************)
C16_FindsEveryMaskedPath ==
  (MaskedDoc /\ rOp # NotRun /\ rOp.op = "find" /\ rOp.arg = rMasked.resource)
    => \A p \in Items(rIn.paths) :
         \E i \in 1..Len(rOut) : rOut[i] = p


(***************************************************************************)
(* C17: for every resource, findAllMaskPathsInResource returns pairwise    *)
(* distinct pointers, the value at every returned pointer satisfies        *)
(* isMask, and no returned pointer is a prefix of another.                 *)
(***************************************************************************)
C17_FoundPathsAreMasks ==
  (rOp # NotRun /\ rOp.op = "find") =>
    /\ \A i, j \in 1..Len(rOut) :
         i # j => ~IsPrefix(rOut[i], rOut[j])
    /\ \A i \in 1..Len(rOut) : isMask(jpGet(rOp.arg.body, rOut[i]))


(***************************************************************************)
(* C18: mask and maskResource leave their inputs unchanged.  After         *)
(* maskResource, whether it returned or threw, the resource it was handed  *)
(* is equal to what it was before the call, for every list of paths; mask  *)
(* is called on each subtree of that resource the paths point at, so the   *)
(* same holds for the original handed to mask.                             *)
(***************************************************************************)
C18_InputsNotMutated ==
  (rMasked # NotRun) => rMasked.input = rIn.resource

\* a resource was masked at some path and the result differs from the input
C18_Witness ==
  /\ MaskedDoc /\ rIn.paths.items # <<>>
  /\ rMasked.resource # rIn.resource
  /\ rMasked.input = rIn.resource

(***************************************************************************)
(* C28: maskResource called without urlToResource returns the sentinel     *)
(* {nonce: false, resource: false, nonceurl: false}; it does not throw and *)
(* masks nothing, whatever the other arguments are.                        *)
(***************************************************************************)
C28_SentinelWithoutUrl ==
  (rMasked # NotRun /\ ~Truthy(rIn.url)) =>
    /\ ~rMasked.threw
    /\ rMasked.nonce = Bool(FALSE)
    /\ rMasked.resource = Bool(FALSE)
    /\ rMasked.nonceurl = Bool(FALSE)
    /\ rMasked.input = rIn.resource

\* the call had paths, a nonce and a nonceurl, and no urlToResource
C28_Witness ==
  /\ rMasked # NotRun /\ rIn.url = Undef
  /\ rIn.paths.items # <<>> /\ Present(rIn.nonce) /\ Present(rIn.nonceurl)
  /\ rMasked.resource = Bool(FALSE)


(***************************************************************************)
(* C19: reconstructOriginalFromMaskPaths does not mutate the               *)
(* maskedResource it is given: the fetched originals go into a copy that   *)
(* is returned as result.resource, and the caller's maskedResource is,     *)
(* after the call, what it was before, mask descriptors included.          *)
(***************************************************************************)
C19_ReconstructKeepsInput ==
  (rOp # NotRun /\ rOp.op = "reconstruct" /\ ~rOut.threw)
    => rOut.input = rOp.arg


\* the subtree a mask commits to: the original inside its hash, if it has one
Committed(m0) ==
  LET hash == Member(Member(Descriptor(m0), "hashinfo"), "hash")
  IN  IF IsStr(hash) /\ "h" \in DOMAIN hash THEN Member(hash.h, "original")
      ELSE Undef

\* the returned resource holds at p what the mask handed in at p commits to
HoldsCommitted(p) ==
  LET c == Committed(jpGet(rOp.arg.body, p))
  IN  c # Undef /\ jpGet(rOut.resource.body, p) = c

ReconstructReturned ==
  rOp # NotRun /\ rOp.op = "reconstruct" /\ ~rOut.threw

(***************************************************************************)
(* C20 as stated: reconstructOriginalFromMaskPaths returns a resource that *)
(* holds, at each listed path, the subtree the mask at that path commits   *)
(* to if and only if every per-path verification returned match = true.    *)
(***************************************************************************)
C20_RestoredIffMatch ==
  ReconstructReturned
    => ((\A p \in Items(rOp.paths) : HoldsCommitted(p)) <=> rOut.match)

(***************************************************************************)
(* C20 amended: if every per-path verification returned match = true, the  *)
(* returned resource holds at each listed path the subtree the mask at     *)
(* that path commits to.  The converse does not hold: the fetched original *)
(* is written back whatever the verdict, so a remote whose nonce is not    *)
(* the one the mask was made with yields the committed subtrees with       *)
(* match = false.                                                          *)
(***************************************************************************)
C20_MatchImpliesRestored ==
  (ReconstructReturned /\ rOut.match)
    => \A p \in Items(rOp.paths) : HoldsCommitted(p)

\* a reconstruction over at least one path whose masks all matched
C20_Witness ==
  /\ ReconstructReturned /\ rOut.match /\ rOp.paths.items # <<>>
  /\ \A p \in Items(rOp.paths) : HoldsCommitted(p)
  /\ rOut.resource = rIn.resource


-----------------------------------------------------------------------------
(***************************************************************************)
(* SpecDetails: verifyRemote (src/index.js 178-211) called by several      *)
(* callers at once, each call advancing from one await to the next.  Line  *)
(* 189, `details = [];`, has no declaration and the file is not in strict  *)
(* mode, so details is a property of the global object: the variable       *)
(* details below.  It refers to an array; the arrays live in heap, and a   *)
(* message records the call whose fetch it is about.                       *)
(***************************************************************************)
DetailsBody ==
  Obj("key1" :> Str("not masked string")
      @@ "location" :> Obj("here" :> Str("we are!!")))

\* masks whose fetches succeed, whose original or nonce is not there, and a
\* descriptor without url
DetailsMasks ==
  {mask(Str("not masked string"), Url(1, K1), RemoteNonce,
        Url(1, NoncePtr), RemoteNonce).mask,
   mask(Str("gone"), Url(1, <<"key2">>), RemoteNonce,
        Url(1, NoncePtr), RemoteNonce).mask,
   mask(Str("not masked string"), Url(1, K1), RemoteNonce,
        Url(2, NoncePtr), RemoteNonce).mask,
   Obj("trellis-mask" :> Obj("version" :> Str("1.0")))}

IdleVerify ==
  [pc |-> "idle", mask |-> Undef, pending |-> {}, original |-> Undef,
   nonce |-> Undef, ret |-> Undef]

InitDetails ==
  /\ store = <<Doc(DetailsBody, <<>>)>>
  /\ nonces = <<RemoteNonce>>
  /\ details = [cur |-> 0, heap |-> <<>>]
  /\ vProc = [c \in Callers |-> IdleVerify]
  /\ rcAcc = [next |-> 1, valid |-> TRUE, match |-> TRUE, body |-> Undef,
              writes |-> <<>>]
  /\ ChainOff
  /\ SingleIdle /\ MaskerIdle /\ ResourceIdle /\ HelpersIdle

DetailsFrame ==
  /\ UNCHANGED chainVars /\ UNCHANGED singleVars /\ UNCHANGED maskerVars
  /\ UNCHANGED resourceVars /\ UNCHANGED helperVars

Msg(c, what) == [by |-> c, what |-> what]

\* lines 179-187: unwrap, the url check, then the await of connectionOrToken
VrCall(c) ==
  /\ vProc[c].pc = "idle"
  /\ \E m0 \in DetailsMasks :
       LET m == Descriptor(m0)
       IN  vProc' = [vProc EXCEPT ![c] =
             IF ~Truthy(Member(m, "url"))
             THEN [@ EXCEPT !.pc = "done", !.mask = m,
                     !.ret = [valid |-> FALSE, match |-> FALSE,
                              original |-> Bool(FALSE),
                              details |-> [own |-> <<Msg(c, "nourl")>>]]]
             ELSE [@ EXCEPT !.pc = "connect", !.mask = m]]
  /\ UNCHANGED <<details, rcAcc>>
  /\ DetailsFrame

\* lines 189-196: details = [] and both GETs are issued
VrIssue(c) ==
  /\ vProc[c].pc = "connect"
  /\ details' = [cur |-> Len(details.heap) + 1,
                 heap |-> Append(details.heap, <<>>)]
  /\ vProc' = [vProc EXCEPT ![c] =
                 [@ EXCEPT !.pc = "fetch", !.pending = {"original", "nonce"}]]
  /\ UNCHANGED rcAcc
  /\ DetailsFrame

\* lines 192-195: one GET settles; .then keeps the data, .catch pushes a
\* message onto the array details refers to at that moment
VrSettle(c) ==
  /\ vProc[c].pc = "fetch"
  /\ \E what \in vProc[c].pending :
       LET url == Member(vProc[c].mask, IF what = "original" THEN "url"
                                        ELSE "nonceurl")
           ok  == GetSucceeds(url.u)
           v   == IF ok THEN Get(url.u) ELSE Null
       IN  /\ vProc' = [vProc EXCEPT ![c] =
                 [@ EXCEPT !.pending = @ \ {what},
                           !.original = IF what = "original" THEN v ELSE @,
                           !.nonce = IF what = "nonce" THEN v ELSE @]]
           /\ details' =
                IF ok THEN details
                ELSE [details EXCEPT !.heap[details.cur] =
                         Append(@, Msg(c, what))]
  /\ UNCHANGED rcAcc
  /\ DetailsFrame

\* lines 197-210: the falsy check returns the array details refers to; the
\* other return concatenates it with what verify reported into a new array
VrReturn(c) ==
  /\ vProc[c].pc = "fetch" /\ vProc[c].pending = {}
  /\ LET me == vProc[c]
         r  == verify(me.mask, me.original, me.nonce)
     IN  vProc' = [vProc EXCEPT ![c] =
           IF ~Truthy(me.original) \/ ~Truthy(me.nonce)
           THEN [@ EXCEPT !.pc = "done",
                   !.ret = [valid |-> FALSE, match |-> FALSE,
                            original |-> Bool(FALSE),
                            details |-> [ref |-> details.cur]]]
           ELSE [@ EXCEPT !.pc = "done",
                   !.ret = [valid |-> r.valid, match |-> r.match,
                            original |-> me.original,
                            details |-> [own |-> details.heap[details.cur]
                                                 \o <<Msg(c, "verify")>>]]]]
  /\ UNCHANGED <<details, rcAcc>>
  /\ DetailsFrame

\* The calls are also the mapper calls of one
\* reconstructOriginalFromMaskPaths(maskedResource, paths): call c is the one
\* for paths[c], and maskedResource holds at paths[c] the mask call c took.
RcPathPool == <<K1, <<"key2">>, Loc, <<"notmasked">>>>

RcPaths == SubSeq(RcPathPool, 1, NumCallers)

RECURSIVE RcMasked(_)
RcMasked(c) ==
  IF c = 0 THEN EmptyObj
  ELSE jpSet(RcMasked(c - 1), RcPaths[c], Obj("trellis-mask" :> vProc[c].mask))

\* a reducer that keeps only the verdict of the path at hand
reduceStepForgets(acc, p, ret) ==
  [next   |-> acc.next + 1,
   valid  |-> ret.valid,
   match  |-> ret.match,
   body   |-> jpSet(acc.body, p, ret.original),
   writes |-> Append(acc.writes, p)]

\* lines 359-367: the reducer, on the accumulator and the result for path p
reduceStep(acc, p, ret) ==
  [next   |-> acc.next + 1,
   valid  |-> acc.valid /\ ret.valid,
   match  |-> acc.match /\ ret.match,
   body   |-> jpSet(acc.body, p, ret.original),
   writes |-> Append(acc.writes, p)]

\* the .reduce takes the next result once the Promise.map has resolved, that
\* is once every verifyRemote has returned; it starts from maskedResource
RcReduce ==
  /\ \A c \in Callers : vProc[c].pc = "done"
  /\ rcAcc.next <= Len(RcPaths)
  /\ rcAcc' = reduceStep(IF rcAcc.next = 1
                         THEN [rcAcc EXCEPT !.body = RcMasked(NumCallers)]
                         ELSE rcAcc,
                         RcPaths[rcAcc.next], vProc[rcAcc.next].ret)
  /\ UNCHANGED <<details, vProc>>
  /\ DetailsFrame

NextDetails ==
  \/ \E c \in Callers :
       \/ VrCall(c)
       \/ VrIssue(c)
       \/ VrSettle(c)
       \/ VrReturn(c)
  \/ RcReduce

SpecDetails == InitDetails /\ [][NextDetails]_vars

\* the array a call returned, as its caller finds it
ReturnedDetails(c) ==
  LET d == vProc[c].ret.details
  IN  IF "ref" \in DOMAIN d THEN details.heap[d.ref] ELSE d.own

(***************************************************************************)
(* C21: there is no process-wide mutable state.  With several verifyRemote *)
(* calls in flight at once, the details each call returns contain only     *)
(* messages about that call's own fetches: no call reads or writes a       *)
(* variable shared with another call.                                      *)
(***************************************************************************)
C21_OwnDetails ==
  \A c \in Callers :
    vProc[c].pc = "done" =>
      \A i \in 1..Len(ReturnedDetails(c)) : ReturnedDetails(c)[i].by = c


-----------------------------------------------------------------------------
(***************************************************************************)
(* SpecHelpers: the synchronous helpers and connectionOrToken, each called *)
(* once on an argument drawn from the sets below.                          *)
(***************************************************************************)
\* a string given by its characters (runs of characters that play no part
\* are kept as one piece)
Chars(cs) == [t |-> "str", chars |-> cs]

HelperUrl == Chars(<<"https:", "//", "trusted.com", "/resources/1/location">>)

HelperHashinfos ==
  {Undef, Null,
   Obj("alg" :> Str("SHA256") @@ "hash" :> Str("abc")),
   Obj("alg" :> Num(256) @@ "hash" :> Str("abc")),
   Obj("alg" :> Str("SHA256")),
   Obj("hash" :> Str("abc"))}

\* an object with the members that are given (Undef: the key is not there)
RECURSIVE WithMembers(_, _)
WithMembers(keys, vals) ==
  IF keys = <<>> THEN <<>>
  ELSE IF Head(vals) = Undef THEN WithMembers(Tail(keys), Tail(vals))
  ELSE Put(WithMembers(Tail(keys), Tail(vals)), Head(keys), Head(vals))

\* descriptors with every choice of present, absent and ill-typed members
HelperDescriptors ==
  {Obj(WithMembers(<<"version", "hashinfo", "url", "nonceurl">>,
                   <<v, h, u, n>>)) :
     v \in {Undef, Str("1.0")},
     h \in HelperHashinfos,
     u \in {Undef, HelperUrl, Num(1)},
     n \in {Undef, HelperUrl, Num(1)}}

HelperUrlWithPort ==
  Chars(<<"https:", "//", "localhost", ":", "3000", "/resources/1/location">>)

\* urllib.parse(url): host is the hostname together with the port
urlParse(url) ==
  LET cs == url.chars
  IN  IF Len(cs) >= 3 /\ cs[2] = "//"
      THEN IF Len(cs) >= 5 /\ cs[4] = ":"
           THEN [protocol |-> Chars(<<cs[1]>>), hostname |-> Chars(<<cs[3]>>),
                 port |-> Chars(<<cs[5]>>),
                 host |-> Chars(<<cs[3], ":", cs[5]>>),
                 pathname |-> Chars(SubSeq(cs, 6, Len(cs)))]
           ELSE [protocol |-> Chars(<<cs[1]>>), hostname |-> Chars(<<cs[3]>>),
                 port |-> Null, host |-> Chars(<<cs[3]>>),
                 pathname |-> Chars(SubSeq(cs, 4, Len(cs)))]
      ELSE [protocol |-> Null, hostname |-> Null, port |-> Null,
            host |-> Null, pathname |-> Chars(cs)]

\* what `+` makes of an operand: null becomes the text "null"
Text(x) == IF x.t = "null" THEN <<"null">> ELSE x.chars

\* domainFromURL (src/index.js 41-47); urllib.parse throws on a non-string
domainFromURL(url) ==
  IF ~(IsStr(url) /\ "chars" \in DOMAIN url) THEN ThrewV
  ELSE LET u  == urlParse(url)
           pp == IF Truthy(u.port) THEN <<":">> \o Text(u.port) ELSE <<>>
       IN  Chars(Text(u.protocol) \o <<"//">> \o Text(u.host) \o pp)

\* domainForMask (src/index.js 53-60)
domainForMask(mask0) ==
  LET m == IF Truthy(mask0) /\ Truthy(Member(mask0, "trellis-mask"))
           THEN Member(mask0, "trellis-mask") ELSE mask0
  IN  IF ~Truthy(m) THEN Bool(FALSE)
      ELSE IF ~Truthy(Member(m, "url")) THEN Bool(FALSE)
      ELSE domainFromURL(Member(m, "url"))

DomainUrls ==
  {Undef, Str(""), Num(5), Chars(<<"not a url">>), HelperUrl,
   HelperUrlWithPort,
   Chars(<<"http:", "//", "trusted.com", ":", "80">>),
   Chars(<<"https:", "//", "some.domain">>)}

DomainInputs ==
  {Undef, Null, EmptyObj, Bool(FALSE)}
    \cup {Obj(WithMembers(<<"version", "url", "nonceurl">>, <<v, u, n>>)) :
            v \in {Undef, Str("1.0")}, u \in DomainUrls,
            n \in {Undef, HelperUrl}}
    \cup {Obj("trellis-mask" :>
               Obj(WithMembers(<<"version", "url">>, <<Str("1.0"), u>>))) :
            u \in DomainUrls}

\* the signing key of the tests, and tsig.keys.pubFromPriv of it
PrivateJWK ==
  Obj("kid" :> Str("kid-1") @@ "jku" :> Str("https://trusted.com/jwks")
      @@ "d" :> Str("private part"))

pubFromPriv(jwk) == Obj("kid" :> Member(jwk, "kid"))

\* lines 233-246: the header object after the defaults are filled in; a
\* header that was passed is the very object the members are assigned to
headerDefaults(header, privateJWK) ==
  LET h1 == IF ~Truthy(Member(header, "jwk"))
            THEN Obj(Put(header.kv, "jwk", pubFromPriv(privateJWK)))
            ELSE header
      h2 == IF ~Truthy(Member(h1, "kid"))
            THEN Obj(Put(h1.kv, "kid", Member(privateJWK, "kid"))) ELSE h1
  IN  IF ~Truthy(Member(h2, "jku"))
      THEN Obj(Put(h2.kv, "jku", Member(privateJWK, "jku"))) ELSE h2

\* signResource as a call: the signed resource, and the resource and the
\* header handed in as the call leaves them (tsig.sign returns a new object)
signResourceCall(resource, privateJWK, header, paths) ==
  [resource |-> signResource(resource, paths, FALSE),
   input    |-> resource,
   header   |-> IF Truthy(header) THEN headerDefaults(header, privateJWK)
                ELSE header]

SignHeaders ==
  {Undef, EmptyObj, Obj("kid" :> Str("my kid")),
   Obj("jwk" :> pubFromPriv(PrivateJWK) @@ "kid" :> Str("kid-1")
       @@ "jku" :> Str("https://trusted.com/jwks"))}

SignResources ==
  {Doc(b, <<>>) : b \in ResourceBodies}
    \cup {tsigSign(Doc(b, <<>>), "transcription", Undef, TRUE) :
            b \in ResourceBodies}
    \cup {maskResource(Doc(b, <<>>), Url(1, <<>>), Arr(<<Loc>>), RemoteNonce,
                       Undef, RemoteNonce).resource : b \in ResourceBodies}

SignInputs ==
  [fn : {"signResource"}, resource : SignResources, header : SignHeaders,
   paths : {Undef, Arr(<<>>), Arr(<<Loc>>), Arr(<<K1, Loc>>)}]

\* the characters of a key: "~" and "/" apart, the rest in one piece
KeyChars(k) ==
  CASE k = "keywith/slash" -> <<"keywith", "/", "slash">>
    [] k = "a~b"           -> <<"a", "~", "b">>
    [] OTHER               -> <<k>>

\* String.prototype.replace(/c/g, with) on a sequence of characters
RECURSIVE replaceAll(_, _, _)
replaceAll(cs, c, with) ==
  IF cs = <<>> THEN <<>>
  ELSE (IF Head(cs) = c THEN with ELSE <<Head(cs)>>)
       \o replaceAll(Tail(cs), c, with)

\* the inverse replacement: the two characters esc become the character c
RECURSIVE replaceBack(_, _, _)
replaceBack(cs, esc, c) ==
  IF Len(cs) < 2 THEN cs
  ELSE IF SubSeq(cs, 1, 2) = esc
       THEN <<c>> \o replaceBack(SubSeq(cs, 3, Len(cs)), esc, c)
       ELSE <<Head(cs)>> \o replaceBack(Tail(cs), esc, c)

\* json-pointer escape and unescape of one reference token
jpEscape(tok)   == replaceAll(replaceAll(tok, "~", <<"~", "0">>), "/", <<"~", "1">>)
jpUnescape(tok) == replaceBack(replaceBack(tok, <<"~", "1">>, "/"), <<"~", "0">>, "~")

\* jsonpointer.compile: the pointer string of a list of reference tokens
RECURSIVE jpCompile(_)
jpCompile(toks) ==
  IF toks = <<>> THEN <<>>
  ELSE <<"/">> \o jpEscape(Head(toks)) \o jpCompile(Tail(toks))

\* the pieces of a pointer string between its "/" characters
RECURSIVE splitSlash(_, _)
splitSlash(cs, cur) ==
  IF cs = <<>> THEN <<cur>>
  ELSE IF Head(cs) = "/" THEN <<cur>> \o splitSlash(Tail(cs), <<>>)
  ELSE splitSlash(Tail(cs), Append(cur, Head(cs)))

RECURSIVE unescapeEach(_)
unescapeEach(toks) ==
  IF toks = <<>> THEN <<>>
  ELSE <<jpUnescape(Head(toks))>> \o unescapeEach(Tail(toks))

\* jsonpointer.parse: the reference tokens of a pointer string
jpParse(str) ==
  IF str = <<>> THEN <<>> ELSE unescapeEach(Tail(splitSlash(str, <<>>)))

\* findAllMaskPathsInResource as the source computes it, on pointer strings:
\* line 72 parses the current path, appends the key and compiles again
RECURSIVE recursiveFindMaskPathStrings(_, _)
RECURSIVE findStringsUnderKeys(_, _, _)
findStringsUnderKeys(curobj, curpath, keys) ==
  IF keys = <<>> THEN <<>>
  ELSE LET newpath == jpCompile(Append(jpParse(curpath), KeyChars(Head(keys))))
       IN  recursiveFindMaskPathStrings(curobj.kv[Head(keys)], newpath)
           \o findStringsUnderKeys(curobj, curpath, Tail(keys))

recursiveFindMaskPathStrings(curobj, curpath) ==
  IF ~Truthy(curobj) THEN <<>>
  ELSE IF ~IsObj(curobj) THEN <<>>
  ELSE IF Truthy(Member(curobj, "trellis-mask")) THEN <<curpath>>
  ELSE findStringsUnderKeys(curobj, curpath,
                            SelectSeq(KeyOrder, LAMBDA k : k \in DOMAIN curobj.kv))

PartialMask(u) == Obj("trellis-mask" :> Obj("url" :> u))

\* resources to walk: those of the tests, keys with "/" and "~", masks inside
\* masks, wrappers whose trellis-mask member is falsy, and non-objects
FindInputs ==
  {Obj("key1" :> Str("not masked string")
       @@ "key2" :> Obj("notmasked" :> Str("object"))
       @@ "location" :> PartialMask(HelperUrl)
       @@ "keywith/slash" :> PartialMask(HelperUrl)),
   Obj("key1" :> Str("not masked string")
       @@ "key2" :> Obj("notmasked" :> Str("object"))
       @@ "location" :> Obj("here" :> Str("we are!!"))),
   Obj("a~b" :> Obj("keywith/slash" :> PartialMask(HelperUrl))
       @@ "key1" :> PartialMask(HelperUrl)),
   Obj("location" :> Obj("trellis-mask" :> Obj("url" :> HelperUrl)
                         @@ "here" :> PartialMask(HelperUrl))),
   PartialMask(HelperUrl),
   EmptyObj, Undef, Null, Str("a string"), Num(7), Bool(TRUE)}
  \cup {Obj("key1" :> Obj("trellis-mask" :> v)
            @@ "location" :> Obj("trellis-mask" :> v
                                 @@ "here" :> PartialMask(HelperUrl))) :
          v \in {Null, Bool(FALSE), Num(0), Str(""), Str("x"), EmptyObj}}

\* oada.connect({domain, token, cache: false, websocket: false})
oadaConnect(domain, token) ==
  [t |-> "connection", domain |-> domain, token |-> token,
   cache |-> FALSE, websocket |-> FALSE, passed |-> FALSE]

\* the connection the tests make beforehand and pass in
PassedConnection ==
  [t |-> "connection", domain |-> Chars(<<"https:", "//", "trusted.com">>),
   token |-> Str("thetoken"), cache |-> FALSE, websocket |-> FALSE,
   passed |-> TRUE]

Outcome(how, connection) ==
  [t |-> "outcome", how |-> how, connection |-> connection]

\* connectionOrToken (src/index.js 20-27)
connectionOrToken(connection, token, domain) ==
  IF ~Truthy(connection)
  THEN IF ~Truthy(token) THEN Outcome("nocredentials", Undef)
       ELSE Outcome("connected", oadaConnect(domain, token))
  ELSE Outcome("connected", connection)

\* x ? x : false
OrFalse(x) == IF Truthy(x) THEN x ELSE Bool(FALSE)

\* verifyRemote up to its connection (lines 179-187)
verifyRemoteConnect(mask0, token, connection) ==
  LET m == IF Truthy(mask0) /\ Truthy(Member(mask0, "trellis-mask"))
           THEN Member(mask0, "trellis-mask") ELSE mask0
  IN  IF ~Truthy(Member(m, "url")) THEN Outcome("returned", Undef)
      ELSE LET domain == domainFromURL(Member(m, "url"))
           IN  IF IsThrew(domain) THEN Outcome("threw", Undef)
               ELSE connectionOrToken(OrFalse(connection), OrFalse(token), domain)

\* maskRemoteResourceAsNewResource up to its connection (lines 286-296)
maskRemoteConnect(url, paths, token, connection) ==
  IF ~Truthy(url) THEN Outcome("threw", Undef)
  ELSE IF ~Truthy(paths) \/ Len(paths.items) < 1 THEN Outcome("threw", Undef)
  ELSE LET domain == domainFromURL(url)
       IN  IF IsThrew(domain) THEN Outcome("threw", Undef)
           ELSE connectionOrToken(OrFalse(connection), OrFalse(token), domain)

\* verifyRemoteResource up to its connection (lines 383-385): domain is
\* computed and not handed to connectionOrToken
verifyRemoteResourceConnect(url, token, connection) ==
  LET domain == domainFromURL(url)
  IN  IF IsThrew(domain) THEN Outcome("threw", Undef)
      ELSE connectionOrToken(OrFalse(connection), OrFalse(token), Undef)

ConnectInputs ==
  [fn : {"connect"},
   caller : {"verifyRemote", "maskRemoteResourceAsNewResource",
             "verifyRemoteResource"},
   url : {HelperUrl, HelperUrlWithPort,
          Chars(<<"https:", "//", "some.domain", "/resources/2">>)},
   token : {Undef, Str("thetoken"), Str("another token")},
   connection : {Undef, PassedConnection}]

IsMaskInputs ==
  HelperDescriptors
    \cup {Obj("trellis-mask" :> d) : d \in HelperDescriptors}
    \cup {Undef, Null, Bool(TRUE), Num(1), Str("a mask"), EmptyObj,
          Obj("trellis-mask" :> Str("not a descriptor"))}

InitHelpers ==
  /\ hIn \in [fn : {"isMask"}, arg : IsMaskInputs]
             \cup [fn : {"domainForMask"}, arg : DomainInputs]
             \cup SignInputs
             \cup [fn : {"find"}, arg : FindInputs]
             \cup ConnectInputs
  /\ hOut = NotRun
  /\ ChainIdle /\ SingleIdle /\ MaskerIdle /\ ResourceIdle /\ DetailsIdle

HelperReturns(fn, out) ==
  /\ hOut = NotRun /\ hIn.fn = fn
  /\ hOut' = out
  /\ UNCHANGED hIn
  /\ UNCHANGED chainVars /\ UNCHANGED singleVars /\ UNCHANGED maskerVars
  /\ UNCHANGED resourceVars /\ UNCHANGED detailVars

CallIsMask == HelperReturns("isMask", Bool(isMask(hIn.arg)))

CallDomainForMask ==
  HelperReturns("domainForMask", domainForMask(hIn.arg))

CallSignResource ==
  HelperReturns("signResource",
                signResourceCall(hIn.resource, PrivateJWK, hIn.header,
                                 hIn.paths))

CallFindAll ==
  HelperReturns("find", Arr(recursiveFindMaskPathStrings(hIn.arg, <<>>)))

\* the call of one of the three functions, up to where its connection is
\* resolved
CallConnect ==
  HelperReturns("connect",
    CASE hIn.caller = "verifyRemote" ->
           verifyRemoteConnect(
             Obj("trellis-mask" :>
                   Obj("version" :> Str("1.0") @@ "url" :> hIn.url
                       @@ "nonceurl" :> hIn.url)),
             hIn.token, hIn.connection)
      [] hIn.caller = "maskRemoteResourceAsNewResource" ->
           maskRemoteConnect(hIn.url, Arr(<<Loc>>), hIn.token, hIn.connection)
      [] OTHER ->
           verifyRemoteResourceConnect(hIn.url, hIn.token, hIn.connection))

NextHelpers ==
  \/ CallIsMask
  \/ CallDomainForMask
  \/ CallSignResource
  \/ CallFindAll
  \/ CallConnect

SpecHelpers == InitHelpers /\ [][NextHelpers]_vars

Called(fn) == hIn.fn = fn /\ hOut # NotRun

\* d has the four members of a descriptor, each of the right shape
WellFormedDescriptor(d) ==
  /\ IsObj(d)
  /\ IsStr(Member(d, "version"))
  /\ IsObj(Member(d, "hashinfo"))
  /\ IsStr(Member(Member(d, "hashinfo"), "alg"))
  /\ IsStr(Member(Member(d, "hashinfo"), "hash"))
  /\ IsStr(Member(d, "url"))
  /\ IsStr(Member(d, "nonceurl"))

(***************************************************************************)
(* C25: isMask(v) is true if and only if v is an object and v itself or    *)
(* v["trellis-mask"] has all four descriptor members with the right shape: *)
(* version, hashinfo with string alg and string hash, string url and       *)
(* string nonceurl.  It is false for every other value, a descriptor that  *)
(* lacks any one of the four included.                                     *)
(***************************************************************************)
C25_IsMaskExact ==
  Called("isMask") =>
    (hOut = Bool(/\ IsObj(hIn.arg)
                 /\ \/ WellFormedDescriptor(hIn.arg)
                    \/ WellFormedDescriptor(Member(hIn.arg, "trellis-mask"))))


\* url is a string of the form scheme://host or scheme://host:port, with or
\* without a path
WellFormedUrl(url) ==
  /\ IsStr(url) /\ "chars" \in DOMAIN url
  /\ Len(url.chars) >= 3 /\ url.chars[2] = "//"

HasPort(url) == Len(url.chars) >= 5 /\ url.chars[4] = ":"

(***************************************************************************)
(* C26: domainForMask, given the wrapper or the inner descriptor, returns  *)
(* scheme://host for a url without a port and scheme://host:port, the port *)
(* once, for a url with an explicit port; it returns false when the mask   *)
(* is null, has no url, or its url is malformed.                           *)
(***************************************************************************)
C26_DomainForMask ==
  Called("domainForMask") =>
    LET url == Member(Descriptor(hIn.arg), "url")
    IN  hOut = IF ~WellFormedUrl(url) THEN Bool(FALSE)
               ELSE Chars(SubSeq(url.chars, 1, IF HasPort(url) THEN 5 ELSE 3))


(***************************************************************************)
(* C27: signResource returns a new resource carrying exactly one more      *)
(* signature than the input, made by the external signer with type "mask"  *)
(* and payload mask-paths equal to the given paths; the external verify of *)
(* the result returns valid = true and unchanged = true with that payload; *)
(* the resource and the header object passed in are not mutated.           *)
(***************************************************************************)
C27_SignResource ==
  Called("signResource") =>
    LET signed == hOut.resource
        v      == tsigVerify(signed)
    IN  /\ signed.body = hIn.resource.body
        /\ Len(signed.sigs) = Len(hIn.resource.sigs) + 1
        /\ SubSeq(signed.sigs, 1, Len(hIn.resource.sigs)) = hIn.resource.sigs
        /\ v.valid /\ v.unchanged
        /\ v.payload.type = "mask" /\ v.payload.paths = hIn.paths
        /\ v.original = hIn.resource
        /\ hOut.input = hIn.resource
        /\ hOut.header = hIn.header


\* every pointer (as reference tokens) into the value v
RECURSIVE PointersOf(_)
PointersOf(v) ==
  IF ~IsObj(v) THEN {<<>>}
  ELSE {<<>>} \cup UNION {{<<k>> \o q : q \in PointersOf(v.kv[k])} :
                            k \in DOMAIN v.kv}

HasMaskKey(v) == IsObj(v) /\ "trellis-mask" \in DOMAIN v.kv

\* the characters of the reference tokens of q
RECURSIVE TokenChars(_)
TokenChars(q) ==
  IF q = <<>> THEN <<>> ELSE <<KeyChars(Head(q))>> \o TokenChars(Tail(q))

ProperPrefixes(q) == {SubSeq(q, 1, n) : n \in 0..(Len(q) - 1)}

\* the places where the walk ends: objects with a trellis-mask key that do
\* not lie inside another one
MaskLeaves(v) ==
  {q \in PointersOf(v) :
     /\ HasMaskKey(jpGet(v, q))
     /\ \A r \in ProperPrefixes(q) : ~HasMaskKey(jpGet(v, r))}

KeyIndex(k) == CHOOSE i \in 1..Len(KeyOrder) : KeyOrder[i] = k

\* p comes before q in a depth-first walk that takes keys in their order
RECURSIVE Before(_, _)
Before(p, q) ==
  /\ p # <<>> /\ q # <<>>
  /\ \/ KeyIndex(Head(p)) < KeyIndex(Head(q))
     \/ Head(p) = Head(q) /\ Before(Tail(p), Tail(q))

(***************************************************************************)
(* C29: the walker findAllMaskPathsInResource returns no path for a        *)
(* non-object; for any object that has a trellis-mask key, whatever that   *)
(* key's value, it returns exactly the current path and does not descend;  *)
(* otherwise it visits the keys depth-first in the object's key order,     *)
(* escaping "~" as "~0" and "/" as "~1" in each key.  A resource without   *)
(* masks gives the empty list.                                             *)
(***************************************************************************)
C29_WalkerShape ==
  Called("find") =>
    LET v   == hIn.arg
        out == hOut.items
    IN  /\ ~IsObj(v) => out = <<>>
        /\ IsObj(v) =>
             /\ \A q \in MaskLeaves(v) :
                  \E i \in 1..Len(out) : out[i] = jpCompile(TokenChars(q))
             /\ \A i \in 1..Len(out) :
                  \E q \in MaskLeaves(v) :
                    /\ out[i] = jpCompile(TokenChars(q))
                    /\ jpParse(out[i]) = TokenChars(q)
             /\ \A i, j \in 1..Len(out) :
                  i < j => \E p, q \in MaskLeaves(v) :
                             /\ out[i] = jpCompile(TokenChars(p))
                             /\ out[j] = jpCompile(TokenChars(q))
                             /\ Before(p, q)


(***************************************************************************)
(* C30: connection resolution in verifyRemote,                             *)
(* maskRemoteResourceAsNewResource and verifyRemoteResource.  A passed     *)
(* connection is used as it is; with only a token, a new non-cached,       *)
(* non-websocket connection is made against the domain of the URL being    *)
(* operated on; with neither, the call fails with a missing-credentials    *)
(* error before any request.                                               *)
(***************************************************************************)
C30_ConnectionResolution ==
  Called("connect") =>
    LET domain == Chars(SubSeq(hIn.url.chars, 1,
                               IF HasPort(hIn.url) THEN 5 ELSE 3))
    IN  hOut =
          IF Present(hIn.connection)
          THEN Outcome("connected", hIn.connection)
          ELSE IF Present(hIn.token)
          THEN Outcome("connected",
                       [t |-> "connection", domain |-> domain,
                        token |-> hIn.token, cache |-> FALSE,
                        websocket |-> FALSE, passed |-> FALSE])
          ELSE Outcome("nocredentials", Undef)


-----------------------------------------------------------------------------
(***************************************************************************)
(* C31: verifyRemoteResource always completes with a structured verdict    *)
(* when the failure is a fetch failure or a signature-validation failure.  *)
(* A failed GET of the document at url, a failed GET of a mask's url or    *)
(* nonceurl, and a valid mask signature whose payload has no mask-paths or *)
(* lists a pointer that does not exist or does not hold a mask, never end  *)
(* in a thrown error: the only throw is the one for a modification         *)
(* signature.                                                              *)
(***************************************************************************)
C31_AlwaysVerdict ==
  /\ vpc # "nofetch"
  /\ vpc = "threw" =>
       /\ vdoc.sigs # <<>>
       /\ IsModificationPayload(tsigVerify(vdoc).payload)


\* the signatures on the document the call fetched
NumSignatures == Len(store[Newest].sigs)

AllSignaturesValid == \A i \in 1..Len(frames) : ~frames[i].invalid

\* the call is past the peel: the recursion has returned its combination
Peeled == vpc \in {"final", "done"} /\ NumSignatures >= 1 /\ AllSignaturesValid

(***************************************************************************)
(* C32: verdict composition.  For a document with n >= 1 signatures that   *)
(* all verify as valid, one round is entered per signature, trusted is the *)
(* AND of the n per-signature trusted values, unchanged the AND of the n   *)
(* per-signature unchanged values, and the peel's valid the AND of every   *)
(* per-signature valid and every per-round reconstruction valid; the       *)
(* last-peeled round contributes true to trusted and unchanged.            *)
(***************************************************************************)
C32_VerdictComposition ==
  (Returned /\ Peeled) =>
    /\ Len(frames) = NumSignatures
    /\ result.trusted   = Bool(\A i \in 1..Len(frames) : frames[i].sig.trusted)
    /\ result.unchanged = Bool(\A i \in 1..Len(frames) : frames[i].sig.unchanged)
    /\ result.valid = Bool(\A i \in 1..Len(frames) :
                            frames[i].sig.valid /\ frames[i].rc.valid)

\* lines 436-444: the pass over the masks that remain in the original the
\* peel returned, as the call makes it after the rounds in frames
FinalPass ==
  LET original == roundReturn(frames, 1).original
      paths    == findAllMaskPathsInResource(original)
  IN  IF Len(paths) < 1
      THEN [threw |-> FALSE, valid |-> TRUE, match |-> TRUE,
            resource |-> original, gets |-> <<>>, mism |-> FALSE, ran |-> FALSE]
      ELSE [ran |-> TRUE]
           @@ reconstructOriginalFromMaskPaths(original, Arr(paths))

(***************************************************************************)
(* C32 amended: as C32 for trusted and unchanged; valid is that AND when   *)
(* the recursion returns, and the call returns it ANDed with the valid of  *)
(* the final pass over the masks that remain.                              *)
(***************************************************************************)
C32_VerdictCompositionAmended ==
  Peeled =>
    /\ Len(frames) = NumSignatures
    /\ result.trusted   = Bool(\A i \in 1..Len(frames) : frames[i].sig.trusted)
    /\ result.unchanged = Bool(\A i \in 1..Len(frames) : frames[i].sig.unchanged)
    /\ result.valid =
         Bool(/\ \A i \in 1..Len(frames) :
                   frames[i].sig.valid /\ frames[i].rc.valid
              /\ (Returned => FinalPass.valid))

\* two valid signatures, the newer trusted and the older not: the call
\* returns trusted = false and unchanged = true
C32_Witness ==
  /\ Returned /\ Peeled /\ Len(frames) = 2
  /\ frames[1].sig.trusted /\ ~frames[2].sig.trusted
  /\ frames[1].sig.unchanged /\ frames[2].sig.unchanged
  /\ result.trusted = F /\ result.unchanged = T


-----------------------------------------------------------------------------
\* the listed path i shares no subtree with another listed path
Apart(ps, i) ==
  \A j \in 1..Len(ps) :
    ps[j] # ps[i] => (~IsPrefix(ps[i], ps[j]) /\ ~IsPrefix(ps[j], ps[i]))

\* both GETs of the mask m succeed
FetchesSucceed(m) ==
  LET d == Descriptor(m)
  IN  /\ IsUrl(Member(d, "url")) /\ IsUrl(Member(d, "nonceurl"))
      /\ GetSucceeds(Member(d, "url").u)
      /\ GetSucceeds(Member(d, "nonceurl").u)

(***************************************************************************)
(* C33: reconstructOriginalFromMaskPaths returns valid equal to the AND of *)
(* the per-path valid and match equal to the AND of the per-path match,    *)
(* both true for an empty path list.  At every listed path whose fetches   *)
(* succeeded the fetched original is written, even when that path's match  *)
(* is false; at a path whose fetch failed the mask descriptor is left in   *)
(* place.                                                                  *)
(***************************************************************************)
C33_ReconstructAggregate ==
  (ReconstructReturned /\ rOp.paths.t = "arr") =>
    LET ps  == rOp.paths.items
        per == mapVerifyRemote(rOp.arg, ps)
    IN  /\ rOut.valid = (\A i \in 1..Len(ps) : per[i].valid)
        /\ rOut.match = (\A i \in 1..Len(ps) : per[i].match)
        /\ \A i \in 1..Len(ps) :
             Apart(ps, i) =>
               LET m == jpGet(rOp.arg.body, ps[i])
               IN  jpGet(rOut.resource.body, ps[i])
                     = IF FetchesSucceed(m)
                       THEN Get(Member(Descriptor(m), "url").u)
                       ELSE m


-----------------------------------------------------------------------------
\* the pointers at which a resource of the chain, or a value fetched from
\* one, holds a descriptor
DescriptorsIn(body) ==
  {q \in Pointers \cup {<<>>, <<"here">>} :
     ~IsThrew(jpGet(body, q)) /\ isMask(jpGet(body, q))}

\* what the GET of the url of mask m returns
Fetched(m) == Get(pathFromURL(Member(Descriptor(m), "url")))

(***************************************************************************)
(* C34: final pass.  After all signatures are peeled, every mask           *)
(* descriptor still present in the resulting original is verified against  *)
(* its remote once and replaced by the fetched original; the final match   *)
(* and valid are the peel's values ANDed with that pass's values, trusted  *)
(* and unchanged are left as the peel produced them, and when all fetches  *)
(* succeed and the fetched originals contain no masks the returned         *)
(* original contains no mask descriptor.                                   *)
(***************************************************************************)
C34_FinalPass ==
  (Returned /\ AllSignaturesValid) =>
    LET peel  == roundReturn(frames, 1)
        left  == DescriptorsIn(peel.original.body)
        paths == findAllMaskPathsInResource(peel.original)
    IN  /\ result.trusted = peel.trusted
        /\ result.unchanged = peel.unchanged
        /\ result.match = JAnd(peel.match, Bool(FinalPass.match))
        /\ result.valid = JAnd(peel.valid, Bool(FinalPass.valid))
        /\ Len(FinalPass.gets) = 2 * Len(paths)
        /\ \A q \in left :
             LET m == jpGet(peel.original.body, q)
             IN  FetchesSucceed(m)
                   => jpGet(result.original.body, q) = Fetched(m)
        /\ (\A q \in left :
              LET m == jpGet(peel.original.body, q)
              IN  FetchesSucceed(m) /\ DescriptorsIn(Fetched(m)) = {})
             => DescriptorsIn(result.original.body) = {}


-----------------------------------------------------------------------------
\* verifyRemoteResource was called on the newest resource, whose signatures
\* all verify as valid
ValidChain == vpc \notin {"build", "ready", "nofetch"} /\ edited.badsig = 0

\* what tsig.verify says of the signature round i consumed
SigOf(doc) ==
  LET v == tsigVerify(doc)
  IN  [trusted |-> v.trusted, unchanged |-> v.unchanged, valid |-> v.valid]

(***************************************************************************)
(* C35: the peel is sequential and terminates.  For a document with a      *)
(* chain of n valid signatures the call ends by returning, never by        *)
(* throwing; it has then called the external verify exactly n times,       *)
(* newest signature first, each round on the document the round before     *)
(* reconstructed, whatever the types of the signatures.  While it peels,   *)
(* the signatures left on the document and the rounds done add up to n.    *)
(***************************************************************************)
C35_SequentialPeel ==
  ValidChain =>
    /\ vpc # "threw"
    /\ vpc = "peel" => Len(vdoc.sigs) + Len(frames) = NumSignatures
    /\ Returned =>
         /\ vlog.verifies = NumSignatures
         /\ NumSignatures >= 1 => Len(frames) = NumSignatures
         /\ \A i \in 1..Len(frames) :
              LET input == IF i = 1 THEN store[Newest] ELSE frames[i - 1].resource
              IN  /\ Len(input.sigs) = NumSignatures - (i - 1)
                  /\ input.sigs # <<>> => frames[i].sig = SigOf(input)
                  /\ Len(frames[i].resource.sigs) = Len(input.sigs) - 1
                       \/ input.sigs = <<>>


-----------------------------------------------------------------------------
\* caller c is the only masker that has run
SingleMasker(c) == \A d \in Callers \ {c} : mProc[d].pc = "idle"

(***************************************************************************)
(* C36: nonce consistency for a single masker.  When                       *)
(* maskRemoteResourceAsNewResource runs with no concurrent masker and      *)
(* returns, every mask of the POSTed copy was hashed with exactly the      *)
(* value stored at url + "/_meta/nonce" at that moment, whatever value the *)
(* GET of the nonce returned (an empty string included), so that verify    *)
(* with the unedited original and the stored nonce gives match = true.     *)
(***************************************************************************)
C36_NonceConsistency ==
  \A c \in Callers :
    (mProc[c].pc = "done" /\ SingleMasker(c)) =>
      \A i \in 1..Len(mProc[c].paths.items) :
        LET p == mProc[c].paths.items[i]
            m == jpGet(mPosted[Len(mPosted)].body, p)
            o == jpGet(MaskerOriginal.body, p)
        IN  /\ Member(Descriptor(m), "hashinfo") = commit(o, mNonce)
            /\ verify(m, o, mNonce).match


-----------------------------------------------------------------------------
\* the steps of a call in the order it took them
Ops(c) == [i \in 1..Len(mProc[c].reqs) |-> mProc[c].reqs[i].op]

Did(c, r) == \E i \in 1..Len(mProc[c].reqs) : mProc[c].reqs[i] = r

\* the orders of steps the claim allows for a call that got to its POST
StepOrders(getOk, sign) ==
  <<"getOriginal", "getNonce">>
    \o (IF getOk THEN <<>> ELSE <<"putNonce">>)
    \o (IF sign THEN <<"callback">> ELSE <<>>)
    \o <<"post">>

(***************************************************************************)
(* C37: step order in maskRemoteResourceAsNewResource.  The steps are GET  *)
(* original, GET nonce, PUT nonce (only when the GET of the nonce failed), *)
(* signatureCallback (only when given), POST copy, in this order; the POST *)
(* is never issued before the nonce used in the masks has been read from   *)
(* or successfully written to the nonce URL, and the callback always       *)
(* receives the already-masked resource.                                   *)
(***************************************************************************)
C37_StepOrder ==
  \A c \in Callers :
    LET me == mProc[c]
        n  == Len(me.reqs)
    IN  /\ \E getOk \in BOOLEAN :
             LET order == StepOrders(getOk, me.sign)
             IN  /\ n <= Len(order)
                 /\ Ops(c) = SubSeq(order, 1, n)
                 /\ n >= 2 /\ me.reqs[1].ok => me.reqs[2].ok = getOk
        /\ (n >= 1 /\ me.reqs[n].op = "post") =>
             /\ Did(c, Req("getNonce", TRUE)) \/ Did(c, Req("putNonce", TRUE))
             /\ \A i \in 1..Len(me.paths.items) :
                  LET p == me.paths.items[i]
                  IN  Member(Descriptor(jpGet(me.resource.body, p)), "hashinfo")
                        = commit(jpGet(me.original.body, p), me.nonce)
        /\ Did(c, Req("callback", TRUE)) =>
             LET given == me.resource.sigs[Len(me.resource.sigs)].over
             IN  \A i \in 1..Len(me.paths.items) :
                   isMask(jpGet(given.body, me.paths.items[i]))


-----------------------------------------------------------------------------
(***************************************************************************)
(* C38: result shape.  Every verifyRemoteResource call that returns, one   *)
(* stopped by an invalid signature at the first or a deeper round          *)
(* included, returns trusted, unchanged, valid and match each as a boolean *)
(* and original as a defined JSON document.                                *)
(***************************************************************************)
C38_ResultShape ==
  Returned =>
    /\ result.trusted \in {T, F}
    /\ result.unchanged \in {T, F}
    /\ result.valid \in {T, F}
    /\ result.match \in {T, F}
    /\ result.original.t = "doc"


-----------------------------------------------------------------------------
\* the mask that call c took, as it lies in the masked resource
TakenMask(c) == Obj("trellis-mask" :> vProc[c].mask)

(***************************************************************************)
(* C39: order independence.  The valid and match that verifyRemote         *)
(* returns, and the valid, match and resource that                         *)
(* reconstructOriginalFromMaskPaths returns for pairwise disjoint paths,   *)
(* are the same for every order in which the concurrent fetches complete:  *)
(* they are the values obtained when the fetches are made one after the    *)
(* other.  The write-backs into the resource are applied one at a time in  *)
(* the order of the paths list.                                            *)
(***************************************************************************)
C39_OrderIndependence ==
  /\ \A c \in Callers :
       vProc[c].pc = "done" =>
         LET v == verifyRemote(TakenMask(c))
         IN  vProc[c].ret.valid = v.valid /\ vProc[c].ret.match = v.match
  /\ rcAcc.writes = SubSeq(RcPaths, 1, rcAcc.next - 1)
  /\ rcAcc.next > Len(RcPaths) =>
       LET r == reconstructOriginalFromMaskPaths(
                  Doc(RcMasked(NumCallers), <<>>), Arr(RcPaths))
       IN  /\ ~r.threw
           /\ rcAcc.valid = r.valid /\ rcAcc.match = r.match
           /\ rcAcc.body = r.resource.body

\* a fetch for the second path failed before the fetches for the first path
\* were issued (its message lies in the array that was current then); the
\* first path verified, and the reduce has written every path
C39_Witness ==
  /\ rcAcc.next > Len(RcPaths)
  /\ vProc[1].ret.valid /\ vProc[1].ret.match
  /\ ~vProc[2].ret.valid
  /\ Len(details.heap) >= 2
  /\ \E i \in 1..Len(details.heap[1]) : details.heap[1][i].by = 2
  /\ ~rcAcc.valid /\ ~rcAcc.match


-----------------------------------------------------------------------------
\* how many of the steps of call c were the operation op
Count(c, op) ==
  Cardinality({i \in 1..Len(mProc[c].reqs) : mProc[c].reqs[i].op = op})

\* q lies neither at nor under a path of ps
Outside(ps, q) == \A i \in 1..Len(ps) : ~IsPrefix(ps[i], q)

(***************************************************************************)
(* C40: maskRemoteResourceAsNewResource never writes to the original       *)
(* resource's content.  The only writes of a call are at most one PUT, to  *)
(* url + "/_meta/nonce", and at most one POST, to /resources; every other  *)
(* request is a GET.  The posted copy equals the fetched original except   *)
(* at the masked paths and for the signature the callback added.           *)
(***************************************************************************)
C40_WritesOnlyNonceAndCopy ==
  \A c \in Callers :
    LET me == mProc[c]
    IN  /\ \A i \in 1..Len(me.reqs) :
             me.reqs[i].op \in {"getOriginal", "getNonce", "putNonce",
                                "callback", "post"}
        /\ Count(c, "putNonce") <= 1 /\ Count(c, "post") <= 1
        /\ Cardinality({k \in 1..Len(mPuts) : mPuts[k].by = c})
             = (IF Did(c, Req("putNonce", TRUE)) THEN 1 ELSE 0)
        /\ me.original \in {Undef, MaskerOriginal}
        /\ me.pc = "done" =>
             \E k \in 1..Len(mPosted) :
               LET copy == mPosted[k]
               IN  /\ copy = me.resource
                   /\ DOMAIN copy.body.kv = DOMAIN me.original.body.kv
                   /\ \A q \in Pointers :
                        Outside(me.paths.items, q) =>
                          jpGet(copy.body, q) = jpGet(me.original.body, q)
                   /\ \A i \in 1..Len(me.paths.items) :
                        isMask(jpGet(copy.body, me.paths.items[i]))
                   /\ Len(copy.sigs) = (IF me.sign THEN 1 ELSE 0)

\* a call that PUT a new nonce, had the copy signed and POSTed it
C40_Witness ==
  \E c \in Callers :
    /\ mProc[c].pc = "done" /\ mProc[c].sign
    /\ Count(c, "putNonce") = 1 /\ Count(c, "post") = 1
    /\ jpGet(mPosted[Len(mPosted)].body, Here) = Str("we are!!")
    /\ mPosted[Len(mPosted)].body # MaskerOriginal.body

=============================================================================
